---- MODULE Spec2Model ----
(***************************************************************************)
(* Model of the sandbox execution service: the Redis session store         *)
(* (app/session_manager.py), the container orchestrator                    *)
(* (app/orchestrator/container_manager.py), the session routes             *)
(* (app/routers/sessions.py, app/mcp_server.py), the cleanup worker        *)
(* (app/workers/cleanup.py) and the rate limiter (app/rate_limit.py).      *)
(*                                                                         *)
(* Request handlers are processes; every Redis command and every Docker    *)
(* API call is one step, so handlers interleave exactly at the calls where *)
(* the code can be suspended.  Time is abstracted: a key that carries a    *)
(* TTL may expire at any step, a container may pass the age ceiling at any *)
(* step.                                                                   *)
(***************************************************************************)
EXTENDS Integers, Sequences, FiniteSets, TLC

\* ------------------------------------------------------------------ bounds

\* Number of container ids the runtime hands out in one run.
MaxContainers == 2

\* settings.max_exec_timeout_seconds, scaled down (120 in config.py).
MaxExecTimeout == 2

\* max_workers of the orchestrator's thread pool, scaled down (32 in the code).
MaxWorkers == 1

\* settings.session_ttl_seconds, scaled down (600 in config.py).
SessionTtl == 2

\* command_count is not followed further than this.
MaxCommandCount == 3

\* ------------------------------------------------------------- identifiers

\* Principals and session ids are strings, kept as character sequences.
Alice == <<"a", "l", "i", "c", "e">>
Bob == <<"b", "o", "b">>
Users == {Alice, Bob}
S1 == <<"s", "1">>
Sessions == {S1}

\* Concurrent request handlers, and the principals whose requests each one
\* serves: h1 carries Alice's requests, h2 carries anybody's.
Procs == {"h1", "h2"}
Serves(p) == IF p = "h1" THEN {Alice} ELSE Users

\* Python None for a container id (redis GET on a missing key).
NoId == 0
Ids == 1..MaxContainers

\* Python None / empty string for a principal or a label.
NoStr == <<>>

\* ------------------------------------------------------ container naming

AlphaNumHyphen ==
    {"a", "b", "c", "e", "i", "l", "o", "s", "x", "1", "-"}

SanitizeChar(ch) == IF ch \in AlphaNumHyphen THEN ch ELSE "-"

Take(seq, n) == SubSeq(seq, 1, IF Len(seq) < n THEN Len(seq) ELSE n)

\* The slice [:64] of _sanitize_name.
SanitizeLimit == 64

\* _sanitize_name: re.sub(r"[^a-zA-Z0-9-]", "-", s)[:64]
SanitizeName(s) == Take([i \in 1..Len(s) |-> SanitizeChar(s[i])], SanitizeLimit)

\* f"exec-{_sanitize_name(user_id)}-{_sanitize_name(session_id)}"
ContainerName(user_id, session_id) ==
    <<"e", "x", "e", "c", "-">> \o SanitizeName(user_id) \o <<"-">>
        \o SanitizeName(session_id)

\* -------------------------------------------------------------------- state

VARIABLES
    ctrs,      \* runtime: container id -> container (state, name, labels)
    skey,      \* redis: session:<id> hash, or absent
    ckey,      \* redis: container:<id> string, or absent (NoId)
    clast,     \* redis: session_id -> container:<id> runs out after session:<id>
    pc,        \* handler -> position in its request
    usr,       \* handler -> authenticated principal of the request
    sid,       \* handler -> session_id of the request
    cid,       \* handler -> local container_id / container handle
    rpc,       \* cleanup worker position
    rlist,     \* cleanup worker: containers of the sweep still to handle
    rsid,      \* cleanup worker: session_id label of the container in hand
    rskip,     \* cleanup worker: containers of the sweep it passed over
    removed,   \* cleanup worker: the count the sweep will return
    rgone,     \* cleanup worker: containers the sweep has removed so far
    rdue,      \* cleanup worker: containers that were due when the sweep began
    raced,     \* history: handlers whose create raced another one's
    prev,      \* history: handler -> container its previous call returned
    delh,      \* history: handler -> how its delete went so far
    rate,      \* redis: rate:<principal> counter and whether it has an expiry
    rlpc,      \* handler -> position in check_rate_limit
    rlusr,     \* handler -> principal of the rate-limited request
    rlcount,   \* handler -> local `count` (result of INCR)
    rlttl,     \* handler -> local `ttl` (result of TTL)
    admitted,  \* history: principal -> requests admitted in the current window
    freq,      \* facade: handler -> the request it serves
    fidx,      \* facade: handler -> index of the stage of the request it is at
    fout,      \* facade: handler -> outcome of the request
    fnum,      \* facade: handler -> requests it has taken so far
    fw,        \* facade: handler -> its call of workspace_write
    epc,       \* execute_in_container: call -> position
    orch,      \* call -> the orchestrator (and so the pool) it runs on
    timeout_seconds, \* call -> the argument timeout_seconds
    timeout,   \* call -> local `timeout` (clamped)
    elapsed,   \* call -> seconds spent in future.result so far
    future,    \* call -> the future of run_exec in the pool
    result,    \* call -> what the call returned (or that it raised)
    sttl,      \* redis: seconds session:<id> has left (NoExpiry: it never expires)
    cttl,      \* redis: seconds container:<id> has left
    mpc,       \* session manager: caller -> position in its operation
    msid,      \* session manager: caller -> session_id of the operation
    mcid,      \* session manager: caller -> container_id of create_session
    rfpre,     \* history: caller -> the keys when its refresh_session began
    rfalone,   \* history: caller -> no other caller wrote the keys since
    rfage,     \* history: caller -> seconds since its refresh_session began
    rfdone,    \* history: session_id -> refreshes returned True since HSET
    command,   \* ensure_command_allowed: its argument
    allowed,   \* ensure_command_allowed: how it went
    raw_path,  \* resolve_workspace_path: its argument
    resolved,  \* resolve_workspace_path: what it returned
    wfile,     \* workspace: the file in the container, or that there is none
    wpc,       \* workspace_write / workspace_read: position
    content,   \* workspace_write: its argument
    wchunks,   \* workspace_write: chunks written so far
    rdata,     \* workspace_read: what it returned
    cfg_user,     \* _container_config: its user_id
    cfg_session,  \* _container_config: its session_id
    cfg_name      \* _container_config: the name it built, or none yet

runtimeVars == <<ctrs>>
storeVars == <<skey, ckey, clast>>
procVars == <<pc, usr, sid, cid>>
reaperVars == <<rpc, rlist, rsid, rskip, removed, rgone, rdue>>
histVars == <<raced, prev, delh>>
rateVars == <<rate, rlpc, rlusr, rlcount, rlttl, admitted>>
facadeVars == <<freq, fidx, fout, fnum, fw>>
execVars == <<epc, orch, timeout_seconds, timeout, elapsed, future, result>>
smVars == <<sttl, cttl, mpc, msid, mcid, rfpre, rfalone, rfage, rfdone>>
smCalls == <<mpc, msid, mcid, rfpre, rfalone, rfage, rfdone>>
toolVars == <<command, allowed, raw_path, resolved, wfile, wpc, content, wchunks, rdata,
              cfg_user, cfg_session, cfg_name>>
sessVars == <<ctrs, skey, ckey, clast, pc, usr, sid, cid, rpc, rlist, rsid, rskip,
             removed, rgone, rdue, raced, prev, delh>>
vars == <<ctrs, skey, ckey, clast, pc, usr, sid, cid, rpc, rlist, rsid, rskip, removed, rgone,
          rdue,
          raced, prev, delh,
          rate, rlpc, rlusr, rlcount, rlttl, admitted,
          freq, fidx, fout, fnum, fw,
          epc, orch, timeout_seconds, timeout, elapsed, future, result,
          sttl, cttl, mpc, msid, mcid, rfpre, rfalone, rfage, rfdone,
          command, allowed, raw_path, resolved, wfile, wpc, content, wchunks, rdata,
          cfg_user, cfg_session, cfg_name>>

\* No file at the path followed in /workspace.
NoFile == [exists |-> FALSE, data |-> <<>>]

\* A container slot that was never used, and one whose container was removed.
NoCtr == [state |-> "unused", name |-> NoStr, user |-> NoStr, labelled |-> FALSE,
          session |-> NoStr, stamp |-> "none", aged |-> FALSE, file |-> NoFile]
GoneCtr == [NoCtr EXCEPT !.state = "removed"]

\* Missing session:<id> key.
NoSession == [present |-> FALSE, user_id |-> NoStr, container_id |-> NoId,
              created_at |-> "", command_count |-> 0]

\* Redis TTL of a key without expiry.
NoExpiry == 0 - 1

\* The keys of a session as a refresh_session finds them.
NoKeys == [session |-> NoSession, container |-> NoId]

Live(c) == c \in Ids /\ ctrs[c].state \in {"created", "running", "exited"}
Running(c) == c \in Ids /\ ctrs[c].state = "running"

\* The id the runtime gives the next container.
FreshIds == {i \in Ids : ctrs[i].state = "unused"}
FreshId == CHOOSE i \in FreshIds : \A j \in FreshIds : i <= j

\* Docker refuses a create whose name is held by an existing container.
NameTaken(name) == \E c \in Ids : Live(c) /\ ctrs[c].name = name

\* Missing rate:<principal> key.
NoRate == [count |-> 0, ttl |-> FALSE]

\* No request.
NoRequest == [facade |-> "none", cmd |-> "none", user |-> NoStr,
              binary |-> <<>>, path |-> <<>>]

\* No call of workspace_write under way.
NoWrite == [pc |-> "idle", content |-> <<>>, chunks |-> 0]

\* Calls of execute_in_container on one orchestrator: with one worker the
\* second call can queue behind a saturated pool.
Calls == {1, 2}

\* An orchestrator its owner keeps and calls more than once.  The routes and
\* tools build a ContainerOrchestrator of their own for every request: the
\* orchestrator of call k is k.
SharedOrchestrator == 0

\* A text (stdout, stderr); `n` is the number an f-string put into it.
Text(t) == [msg |-> t, n |-> 0]

\* f"Command timed out after {timeout}s"
TimedOutMessage(n) == [msg |-> "Command timed out after {timeout}s", n |-> n]

\* The dict execute_in_container returns (execution_time left out).
Result(stdout, stderr, exit_code) ==
    [raised |-> FALSE, stdout |-> stdout, stderr |-> stderr,
     exit_code |-> exit_code]

\* The call has not returned.
NoResult == [raised |-> FALSE, stdout |-> Text("-"), stderr |-> Text("-"),
             exit_code |-> 0]

\* No exception.
NoError == [type |-> "none", msg |-> ""]

\* No future yet: run_exec was not submitted.
NoFuture == [state |-> "none", value |-> NoResult, error |-> NoError]

\* Result of resolve_workspace_path when the path escapes the workspace (the
\* function raises HTTPException 400); no resolved path begins with "/".
BadPath == <<"/">>

\* resolve_workspace_path has not run.
Unresolved == <<"/", "/">>

\* workspace_read has not run.
NoRead == [status |-> "none", encoding |-> "none", content |-> <<>>]

\* Positions in which a handler has returned (or raised) and may take the
\* next request.
Finished == {"done", "raised", "deleted", "forbidden"}
Ready == {"idle"} \cup Finished

\* No container on the daemon and no key of a session in the store.
InitStore ==
    /\ ctrs = [c \in Ids |-> NoCtr]
    /\ skey = [s \in Sessions |-> NoSession]
    /\ ckey = [s \in Sessions |-> NoId]
    /\ clast = [s \in Sessions |-> FALSE]
    /\ sttl = [s \in Sessions |-> 0]
    /\ cttl = [s \in Sessions |-> 0]

\* No request, no sweep and no call under way.
InitHandlers ==
    /\ pc = [p \in Procs |-> "idle"]
    /\ usr = [p \in Procs |-> NoStr]
    /\ sid = [p \in Procs |-> NoStr]
    /\ cid = [p \in Procs |-> NoId]
    /\ rpc = "sleep"
    /\ rlist = {}
    /\ rsid = NoStr
    /\ rskip = {}
    /\ removed = 0
    /\ rgone = 0
    /\ rdue = {}
    /\ raced = {}
    /\ prev = [p \in Procs |-> NoId]
    /\ delh = [p \in Procs |-> "none"]
    /\ rate = [u \in Users |-> NoRate]
    /\ rlpc = [p \in Procs |-> "idle"]
    /\ rlusr = [p \in Procs |-> NoStr]
    /\ rlcount = [p \in Procs |-> 0]
    /\ rlttl = [p \in Procs |-> 0]
    /\ admitted = [u \in Users |-> 0]
    /\ freq = [p \in Procs |-> NoRequest]
    /\ fidx = [p \in Procs |-> 0]
    /\ fout = [p \in Procs |-> "none"]
    /\ fnum = [p \in Procs |-> 0]
    /\ fw = [p \in Procs |-> NoWrite]
    /\ epc = [k \in Calls |-> "idle"]
    /\ orch = [k \in Calls |-> SharedOrchestrator]
    /\ timeout_seconds = [k \in Calls |-> 0]
    /\ timeout = [k \in Calls |-> 0]
    /\ elapsed = [k \in Calls |-> 0]
    /\ future = [k \in Calls |-> NoFuture]
    /\ result = [k \in Calls |-> NoResult]
    /\ mpc = [p \in Procs |-> "idle"]
    /\ msid = [p \in Procs |-> NoStr]
    /\ mcid = [p \in Procs |-> NoId]
    /\ rfpre = [p \in Procs |-> NoKeys]
    /\ rfalone = [p \in Procs |-> FALSE]
    /\ rfage = [p \in Procs |-> 0]
    /\ rfdone = [s \in Sessions |-> 0]

InitCore == InitStore /\ InitHandlers

\* The tools before they run: the command to check, the path to resolve and
\* the file in the container.
ToolsAt(cmd, path, file, data) ==
    /\ command = cmd
    /\ allowed = "none"
    /\ raw_path = path
    /\ resolved = Unresolved
    /\ wfile = file
    /\ wpc = "idle"
    /\ content = data
    /\ wchunks = 0
    /\ rdata = NoRead

\* The identifiers that _container_config is to build a name from.
NamesAt(user_id, session_id) ==
    /\ cfg_user = user_id
    /\ cfg_session = session_id
    /\ cfg_name = NoStr

Init == InitCore /\ ToolsAt(<<>>, <<>>, NoFile, <<>>) /\ NamesAt(NoStr, NoStr)

\* ------------------------------------------------------------ store commands

\* DEL session:<id>
DelSessionKey(s) == [skey EXCEPT ![s] = NoSession]

\* DEL container:<id>
DelContainerKey(s) == [ckey EXCEPT ![s] = NoId]

\* What DEL or the expiry of session:<id> leaves of its TTL.
DelSessionTtl(s) == [sttl EXCEPT ![s] = 0]

\* HSET keeps the expiry of an existing key; a key it creates has none.
HsetSessionTtl(s) == [sttl EXCEPT ![s] = IF skey[s].present THEN @ ELSE NoExpiry]

\* EXPIRE session:<id> ttl: nothing happens to a missing key.
ExpireSessionTtl(s) == [sttl EXCEPT ![s] = IF skey[s].present THEN SessionTtl ELSE @]

\* HSET session:<id> mapping={user_id, container_id, created_at, command_count}
HsetSession(s, user_id, container_id) ==
    [skey EXCEPT ![s] = [present |-> TRUE, user_id |-> user_id,
                         container_id |-> container_id,
                         created_at |-> "now", command_count |-> 0]]

\* SET container:<id> value EX ttl
SetContainerKey(s, container_id) == [ckey EXCEPT ![s] = container_id]
SetContainerTtl(s) == [cttl EXCEPT ![s] = SessionTtl]

\* What DEL or the expiry of container:<id> leaves of its TTL.
DelContainerTtl(s) == [cttl EXCEPT ![s] = 0]

\* Both keys of a session get the same ttl (settings.session_ttl_seconds),
\* counted from the command that sets the expiry.  While both exist, the one
\* whose expiry was set by the later command runs out later; clast[s] says
\* that this is container:<id>.  A session:<id> without expiry (sttl[s] =
\* NoExpiry) does not run out at all.
ExpirySetLast(s) == [clast EXCEPT ![s] = skey[s].present]
ExpirySetFirst(s) == [clast EXCEPT ![s] = FALSE]

\* ---------------------------------------------------------- runtime commands

\* container.remove(force=True): the container is gone afterwards, or the call
\* raises (NotFound when it is already gone, APIError when the daemon fails).
RemoveOutcomes(c) == IF Live(c) THEN {"removed", "error"} ELSE {"notfound"}

RemoveCtr(c) == [ctrs EXCEPT ![c] = GoneCtr]

\* containers.create(**config) of a container named `name` with the labels
\* exec.user_id, exec.session_id and exec.created_at = now.
CreateCtr(c, name, user_id, session_id) ==
    [ctrs EXCEPT ![c] = [state |-> "created", name |-> name, user |-> user_id,
                         labelled |-> TRUE, session |-> session_id, stamp |-> "ok",
                         aged |-> FALSE, file |-> NoFile]]

\* container.start()
StartCtr(c) == [ctrs EXCEPT ![c].state = "running"]

\* -------------------------------------------------------------------- history

\* A delete that passed the ownership check begins: the calls before it and
\* the calls after it are no longer "without a delete between them".
ForgetPrev(s) == [p \in Procs |-> IF sid[p] = s THEN NoId ELSE prev[p]]

\* Handler q writes a key of session s while p's delete of s is under way or
\* has returned: p's delete is no longer the last writer.
Disturb(q, s) ==
    [p \in Procs |-> IF p # q /\ sid[p] = s /\ delh[p] # "none" THEN "dirty"
                     ELSE delh[p]]

\* Handlers that read "no container" for the same (user, session) as p and
\* have not created yet.
Rivals(p) ==
    {q \in Procs \ {p} : /\ pc[q] = "goc_create" /\ cid[q] = NoId
                         /\ usr[q] = usr[p] /\ sid[q] = sid[p]}

\* -------------------------------------------- handler: get_or_create_container

\* A request reaches orchestrator.get_or_create_container(session_id, user_id):
\* container_id = self.session_manager.get_container_id(session_id)
GocStart(p, u, s) ==
    /\ pc[p] \in Ready
    /\ usr' = [usr EXCEPT ![p] = u]
    /\ sid' = [sid EXCEPT ![p] = s]
    /\ cid' = [cid EXCEPT ![p] = ckey[s]]
    /\ pc' = [pc EXCEPT ![p] = IF ckey[s] = NoId THEN "goc_create" ELSE "goc_get"]
    /\ raced' = raced \ {p}
    /\ prev' = [prev EXCEPT ![p] = IF pc[p] = "done" /\ usr[p] = u /\ sid[p] = s
                                   THEN prev[p] ELSE NoId]
    /\ delh' = [delh EXCEPT ![p] = "none"]
    /\ UNCHANGED <<ctrs, storeVars, reaperVars, rateVars, facadeVars, execVars, smVars, toolVars>>

\* Mutant of GocCheckStatus: the status test is lost, every container found
\* is replaced.
GocCheckStatusNoReuse(c) == IF ~Live(c) THEN "goc_del_s" ELSE "goc_remove"

\* container = self.client.containers.get(container_id)
\* if container.status == "running": return container
GocCheckStatus(c) ==
    IF ~Live(c) THEN "goc_del_s"
    ELSE IF ctrs[c].state = "running" THEN "done"
    ELSE "goc_remove"

GocContainersGet(p) ==
    /\ pc[p] = "goc_get"
    /\ pc' = [pc EXCEPT ![p] = GocCheckStatus(cid[p])]
    /\ prev' = [prev EXCEPT ![p] = IF GocCheckStatus(cid[p]) = "done"
                                   THEN cid[p] ELSE prev[p]]
    /\ UNCHANGED <<ctrs, storeVars, usr, sid, cid, reaperVars, raced, delh, rateVars, facadeVars, execVars, smVars, toolVars>>

\* container.remove(force=True) of the exited container; errors are swallowed.
GocRemoveExited(p) ==
    /\ pc[p] = "goc_remove"
    /\ \E o \in RemoveOutcomes(cid[p]) :
          ctrs' = IF o = "removed" THEN RemoveCtr(cid[p]) ELSE ctrs
    /\ pc' = [pc EXCEPT ![p] = "goc_del_s"]
    /\ UNCHANGED <<storeVars, usr, sid, cid, reaperVars, histVars, rateVars, facadeVars, execVars, smVars, toolVars>>

\* self.session_manager.delete_session(session_id): first DEL
GocDeleteSessionKey(p) ==
    /\ pc[p] = "goc_del_s"
    /\ skey' = DelSessionKey(sid[p])
    /\ sttl' = DelSessionTtl(sid[p])
    /\ clast' = ExpirySetFirst(sid[p])
    /\ pc' = [pc EXCEPT ![p] = "goc_del_c"]
    /\ UNCHANGED <<ctrs, ckey, usr, sid, cid, reaperVars, histVars, rateVars, facadeVars, execVars, cttl, smCalls, toolVars>>

\* self.session_manager.delete_session(session_id): second DEL
GocDeleteContainerKey(p) ==
    /\ pc[p] = "goc_del_c"
    /\ ckey' = DelContainerKey(sid[p])
    /\ cttl' = DelContainerTtl(sid[p])
    /\ clast' = ExpirySetFirst(sid[p])
    /\ pc' = [pc EXCEPT ![p] = "goc_create"]
    /\ UNCHANGED <<ctrs, skey, usr, sid, cid, reaperVars, histVars, rateVars, facadeVars, execVars, sttl, smCalls, toolVars>>

\* The outcome of self.client.containers.create(**config): a name conflict
\* raises docker.errors.APIError (409), which nothing catches.
GocCreateOutcome(name) == IF NameTaken(name) THEN "raised" ELSE "goc_start"

\* config = self._container_config(session_id, user_id)
\* container = self.client.containers.create(**config)
GocContainersCreate(p) ==
    /\ pc[p] = "goc_create"
    /\ LET name == ContainerName(usr[p], sid[p]) IN
         IF GocCreateOutcome(name) = "raised"
         THEN /\ pc' = [pc EXCEPT ![p] = "raised"]
              /\ cid' = [cid EXCEPT ![p] = NoId]
              /\ prev' = [prev EXCEPT ![p] = NoId]
              /\ UNCHANGED ctrs
         ELSE /\ FreshIds # {}
              /\ ctrs' = CreateCtr(FreshId, name, usr[p], sid[p])
              /\ cid' = [cid EXCEPT ![p] = FreshId]
              /\ pc' = [pc EXCEPT ![p] = "goc_start"]
              /\ UNCHANGED prev
    /\ raced' = IF cid[p] = NoId /\ Rivals(p) # {}
                THEN raced \cup {p} \cup Rivals(p) ELSE raced
    /\ UNCHANGED <<storeVars, usr, sid, reaperVars, delh, rateVars, facadeVars, execVars, smVars, toolVars>>

\* container.start(); NotFound propagates when the container is gone.
GocContainerStart(p) ==
    /\ pc[p] = "goc_start"
    /\ IF Live(cid[p])
       THEN /\ ctrs' = StartCtr(cid[p])
            /\ pc' = [pc EXCEPT ![p] = "goc_hset"]
            /\ UNCHANGED <<cid, prev>>
       ELSE /\ pc' = [pc EXCEPT ![p] = "raised"]
            /\ cid' = [cid EXCEPT ![p] = NoId]
            /\ prev' = [prev EXCEPT ![p] = NoId]
            /\ UNCHANGED ctrs
    /\ UNCHANGED <<storeVars, usr, sid, reaperVars, raced, delh, rateVars, facadeVars, execVars, smVars, toolVars>>

\* create_session: self.redis.hset(session_key, mapping=...)
GocHsetSession(p) ==
    /\ pc[p] = "goc_hset"
    /\ skey' = HsetSession(sid[p], usr[p], cid[p])
    /\ sttl' = HsetSessionTtl(sid[p])
    /\ pc' = [pc EXCEPT ![p] = "goc_expire"]
    /\ delh' = Disturb(p, sid[p])
    /\ UNCHANGED <<ctrs, ckey, clast, usr, sid, cid, reaperVars, raced, prev, rateVars, facadeVars, execVars, cttl, smCalls, toolVars>>

\* create_session: self.redis.expire(session_key, self.session_ttl)
GocExpireSession(p) ==
    /\ pc[p] = "goc_expire"
    /\ sttl' = ExpireSessionTtl(sid[p])
    /\ clast' = IF skey[sid[p]].present THEN ExpirySetFirst(sid[p]) ELSE clast
    /\ pc' = [pc EXCEPT ![p] = "goc_set"]
    /\ UNCHANGED <<ctrs, skey, ckey, usr, sid, cid, reaperVars, histVars, rateVars, facadeVars, execVars, cttl, smCalls, toolVars>>

\* create_session: self.redis.set(container_key, container_id, ex=ttl);
\* return container
GocSetContainerKey(p) ==
    /\ pc[p] = "goc_set"
    /\ ckey' = SetContainerKey(sid[p], cid[p])
    /\ cttl' = SetContainerTtl(sid[p])
    /\ clast' = ExpirySetLast(sid[p])
    /\ pc' = [pc EXCEPT ![p] = "done"]
    /\ prev' = [prev EXCEPT ![p] = cid[p]]
    /\ delh' = Disturb(p, sid[p])
    /\ UNCHANGED <<ctrs, skey, usr, sid, cid, reaperVars, raced, rateVars, facadeVars, execVars, sttl, smCalls, toolVars>>

\* ----------------------------------------------------- handler: delete_session

\* Mutant of DelExistsCheck: a missing record no longer ends the request.
DelExistsCheckGoesOn(session) ==
    IF session.present THEN "del_hgetall" ELSE "del_get_cid"

\* get_session: if not self.redis.exists(session_key): return None
\* -> if not session: return {"status": "deleted", ...}
DelExistsCheck(session) == IF session.present THEN "del_hgetall" ELSE "deleted"

\* DELETE /sessions/{session_id} and the delete_session tool (same body):
\* session = orchestrator.session_manager.get_session(session_id), EXISTS
DelStart(p, u, s) ==
    /\ pc[p] \in Ready
    /\ usr' = [usr EXCEPT ![p] = u]
    /\ sid' = [sid EXCEPT ![p] = s]
    /\ cid' = [cid EXCEPT ![p] = NoId]
    /\ pc' = [pc EXCEPT ![p] = DelExistsCheck(skey[s])]
    /\ raced' = raced \ {p}
    /\ prev' = [prev EXCEPT ![p] = NoId]
    /\ delh' = [delh EXCEPT ![p] = "none"]
    /\ UNCHANGED <<ctrs, storeVars, reaperVars, rateVars, facadeVars, execVars, smVars, toolVars>>

\* Mutant of DelOwnerCheck: the ownership test is lost.
DelOwnerCheckAnyUser(session, user_id) ==
    IF ~session.present THEN "deleted" ELSE "del_get_cid"

\* The handler's decision on the hash that HGETALL returned:
\* return raw if raw else None; if not session: return deleted;
\* if session.get("user_id") != user_id: raise HTTPException(403)
DelOwnerCheck(session, user_id) ==
    IF ~session.present THEN "deleted"
    ELSE IF session.user_id # user_id THEN "forbidden"
    ELSE "del_get_cid"

\* get_session: raw = self.redis.hgetall(session_key); the ownership check
DelHgetall(p) ==
    /\ pc[p] = "del_hgetall"
    /\ LET to == DelOwnerCheck(skey[sid[p]], usr[p]) IN
         /\ pc' = [pc EXCEPT ![p] = to]
         /\ delh' = [delh EXCEPT ![p] = IF to = "del_get_cid" THEN "started"
                                        ELSE "none"]
         /\ prev' = IF to = "del_get_cid" THEN ForgetPrev(sid[p]) ELSE prev
    /\ UNCHANGED <<ctrs, storeVars, usr, sid, cid, reaperVars, raced, rateVars, facadeVars, execVars, smVars, toolVars>>

\* container_id = orchestrator.session_manager.get_container_id(session_id)
DelGetContainerId(p) ==
    /\ pc[p] = "del_get_cid"
    /\ cid' = [cid EXCEPT ![p] = ckey[sid[p]]]
    /\ pc' = [pc EXCEPT ![p] = IF ckey[sid[p]] = NoId THEN "del_del_s"
                                ELSE "del_get"]
    /\ delh' = [delh EXCEPT ![p] = IF delh[p] = "dirty" THEN "dirty"
                                   ELSE IF ckey[sid[p]] = NoId THEN "nocid"
                                   ELSE delh[p]]
    /\ UNCHANGED <<ctrs, storeVars, usr, sid, reaperVars, raced, prev, rateVars, facadeVars, execVars, smVars, toolVars>>

\* Mutant of DelAfterRemove: a daemon error on removal aborts the delete.
DelAfterRemoveAborts(o) == IF o = "error" THEN "raised" ELSE "del_del_s"

\* Where the handler goes after the removal attempt ended with outcome o:
\* try: containers.get(...); container.remove(force=True)
\* except Exception: pass
DelAfterRemove(o) == "del_del_s"

\* containers.get(container_id): the handle of the container, NotFound when
\* it is gone, APIError when the daemon fails.
GetOutcomes(c) == IF Live(c) THEN {"found", "error"} ELSE {"notfound"}

\* container = orchestrator.client.containers.get(container_id)
DelContainersGet(p) ==
    /\ pc[p] = "del_get"
    /\ \E o \in GetOutcomes(cid[p]) :
          /\ pc' = [pc EXCEPT ![p] = IF o = "found" THEN "del_remove"
                                      ELSE DelAfterRemove(o)]
          /\ delh' = [delh EXCEPT ![p] = IF delh[p] = "dirty" \/ o = "found"
                                         THEN delh[p] ELSE o]
    /\ UNCHANGED <<ctrs, storeVars, usr, sid, cid, reaperVars, raced, prev, rateVars, facadeVars, execVars, smVars, toolVars>>

\* container.remove(force=True)
DelRemove(p) ==
    /\ pc[p] = "del_remove"
    /\ \E o \in RemoveOutcomes(cid[p]) :
          /\ ctrs' = IF o = "removed" THEN RemoveCtr(cid[p]) ELSE ctrs
          /\ pc' = [pc EXCEPT ![p] = DelAfterRemove(o)]
          /\ delh' = [delh EXCEPT ![p] = IF delh[p] = "dirty" THEN "dirty" ELSE o]
    /\ UNCHANGED <<storeVars, usr, sid, cid, reaperVars, raced, prev, rateVars, facadeVars, execVars, smVars, toolVars>>

\* orchestrator.session_manager.delete_session(session_id): first DEL
DelDeleteSessionKey(p) ==
    /\ pc[p] = "del_del_s"
    /\ skey' = DelSessionKey(sid[p])
    /\ sttl' = DelSessionTtl(sid[p])
    /\ clast' = ExpirySetFirst(sid[p])
    /\ pc' = [pc EXCEPT ![p] = "del_del_c"]
    /\ UNCHANGED <<ctrs, ckey, usr, sid, cid, reaperVars, histVars, rateVars, facadeVars, execVars, cttl, smCalls, toolVars>>

\* orchestrator.session_manager.delete_session(session_id): second DEL;
\* return {"status": "deleted", ...}
DelDeleteContainerKey(p) ==
    /\ pc[p] = "del_del_c"
    /\ ckey' = DelContainerKey(sid[p])
    /\ cttl' = DelContainerTtl(sid[p])
    /\ clast' = ExpirySetFirst(sid[p])
    /\ pc' = [pc EXCEPT ![p] = "deleted"]
    /\ cid' = [cid EXCEPT ![p] = NoId]
    /\ UNCHANGED <<ctrs, skey, usr, sid, reaperVars, histVars, rateVars, facadeVars, execVars, sttl, smCalls, toolVars>>

\* -------------------------------------------------------------- cleanup worker

\* The containers that containers.list(filters={"label": SESSION_LABEL},
\* all=True) returns: those with the label exec.session_id, whatever its
\* value, stopped or not.
ReaperListed(c) == Live(c) /\ ctrs[c].labelled

\* The tests of the loop body before the removal: the label exec.created_at
\* is there (a value that does not parse raises into the loop's except) and
\* the age is at least max_age_seconds.
ReaperEligible(c) ==
    ReaperListed(c) /\ ctrs[c].stamp = "ok" /\ ctrs[c].aged

\* A container with the label exec.session_id whose exec.created_at is at
\* least cleanup_max_container_age_seconds old: one a sweep is to remove.
Due(c) == Live(c) /\ ctrs[c].labelled /\ ctrs[c].stamp = "ok" /\ ctrs[c].aged

\* containers.list(...): the list, or the call raises (the daemon cannot be
\* reached).
ListOutcomes == {"listed", "raised"}

\* removed = 0; containers.list(...); now = utcnow().  The labels and `now`
\* are fixed here, so the tests of every container of the sweep are decided
\* here: the sweep keeps those that pass and passes over the others.  When
\* the call raises, the except logs it and returns 0: the sweep looks at no
\* container and the worker goes to sleep.
ReaperList ==
    /\ rpc = "sleep"
    /\ \E o \in ListOutcomes :
          /\ rlist' = IF o = "listed" THEN {c \in Ids : ReaperEligible(c)} ELSE {}
          /\ rskip' = IF o = "listed"
                      THEN {c \in Ids : ReaperListed(c) /\ ~ReaperEligible(c)}
                      ELSE {}
    /\ rdue' = {c \in Ids : Due(c)}
    /\ rpc' = "loop"
    /\ UNCHANGED <<ctrs, storeVars, procVars, rsid, removed, rgone, histVars, rateVars,
                   facadeVars, execVars, smVars, toolVars>>

\* container.remove(force=True) inside the loop's try; an exception skips the
\* rest of the loop body (no delete_session) and the sweep goes on.  When the
\* label exec.session_id is the empty string, `if session_id:` passes over
\* delete_session and the container is counted at once.
ReaperRemove(c) ==
    /\ rpc = "loop"
    /\ c \in rlist
    /\ rlist' = rlist \ {c}
    /\ \E o \in RemoveOutcomes(c) :
          IF o = "removed"
          THEN /\ ctrs' = RemoveCtr(c)
               /\ rgone' = rgone + 1
               /\ IF ctrs[c].session # NoStr
                  THEN /\ rsid' = ctrs[c].session
                       /\ rpc' = "del_s"
                       /\ UNCHANGED removed
                  ELSE /\ removed' = removed + 1
                       /\ UNCHANGED <<rsid, rpc>>
          ELSE UNCHANGED <<ctrs, rsid, rpc, rgone, removed>>
    /\ UNCHANGED <<storeVars, procVars, rskip, rdue, histVars, rateVars, facadeVars,
                   execVars, smVars, toolVars>>

\* session_manager.delete_session(session_id): first DEL
ReaperDeleteSessionKey ==
    /\ rpc = "del_s"
    /\ skey' = DelSessionKey(rsid)
    /\ sttl' = DelSessionTtl(rsid)
    /\ clast' = ExpirySetFirst(rsid)
    /\ rpc' = "del_c"
    /\ UNCHANGED <<ctrs, ckey, procVars, rlist, rsid, rskip, removed, rgone, rdue, histVars,
                   rateVars, facadeVars, execVars, cttl, smCalls, toolVars>>

\* session_manager.delete_session(session_id): second DEL; removed += 1
ReaperDeleteContainerKey ==
    /\ rpc = "del_c"
    /\ ckey' = DelContainerKey(rsid)
    /\ cttl' = DelContainerTtl(rsid)
    /\ clast' = ExpirySetFirst(rsid)
    /\ rpc' = "loop"
    /\ rsid' = NoStr
    /\ removed' = removed + 1
    /\ UNCHANGED <<ctrs, skey, procVars, rlist, rskip, rgone, rdue, histVars, rateVars, facadeVars,
                   execVars, sttl, smCalls, toolVars>>

\* A DEL of delete_session raises (the store cannot be reached): the loop's
\* except logs it, the rest of the loop body is skipped and the sweep goes on.
ReaperStoreError ==
    /\ rpc \in {"del_s", "del_c"}
    /\ rpc' = "loop"
    /\ rsid' = NoStr
    /\ UNCHANGED <<ctrs, storeVars, procVars, rlist, rskip, removed, rgone, rdue, histVars,
                   rateVars, facadeVars, execVars, smVars, toolVars>>

\* return removed: the sweep is over, its locals are gone; time.sleep(interval)
ReaperSleep ==
    /\ rpc = "loop"
    /\ rlist = {}
    /\ rpc' = "sleep"
    /\ rskip' = {}
    /\ removed' = 0
    /\ rgone' = 0
    /\ rdue' = {}
    /\ UNCHANGED <<ctrs, storeVars, procVars, rlist, rsid, histVars, rateVars, facadeVars, execVars, smVars, toolVars>>

\* ------------------------------------------------------------------ environment

\* docker rm -f out of band
ExternalRemove(c) ==
    /\ Live(c)
    /\ ctrs' = RemoveCtr(c)
    /\ UNCHANGED <<storeVars, procVars, reaperVars, histVars, rateVars, facadeVars, execVars, smVars, toolVars>>

\* The container's main process exits (kill, OOM, daemon restart).
ExternalExit(c) ==
    /\ Running(c)
    /\ ctrs' = [ctrs EXCEPT ![c].state = "exited"]
    /\ UNCHANGED <<storeVars, procVars, reaperVars, histVars, rateVars, facadeVars, execVars, smVars, toolVars>>

\* A container that no request of the sessions followed here made: without
\* the label exec.session_id, carrying it but with no exec.created_at label
\* or one that is not an ISO date, or carrying both with the empty string as
\* exec.session_id (the tools take any string as session_id).
ForeignKinds == {"unlabelled", "nostamp", "badstamp", "emptylabel"}

ForeignCreate(kind, s) ==
    /\ FreshIds # {}
    /\ ctrs' = [ctrs EXCEPT ![FreshId] =
                  [state |-> "running", name |-> NoStr, user |-> NoStr,
                   labelled |-> kind # "unlabelled",
                   session |-> IF kind \in {"unlabelled", "emptylabel"} THEN NoStr ELSE s,
                   stamp |-> IF kind = "nostamp" THEN "none"
                             ELSE IF kind = "badstamp" THEN "garbled" ELSE "ok",
                   aged |-> FALSE, file |-> NoFile]]
    /\ UNCHANGED <<storeVars, procVars, reaperVars, histVars, rateVars, facadeVars, execVars, smVars, toolVars>>

\* Time passes: now - exec.created_at reaches cleanup_max_container_age_seconds.
Age(c) ==
    /\ Live(c)
    /\ ~ctrs[c].aged
    /\ ctrs' = [ctrs EXCEPT ![c].aged = TRUE]
    /\ UNCHANGED <<storeVars, procVars, reaperVars, histVars, rateVars, facadeVars, execVars, smVars, toolVars>>

\* Redis drops session:<id> when its TTL runs out.
ExpireSessionKey(s) ==
    /\ skey[s].present
    /\ sttl[s] # NoExpiry
    /\ ckey[s] = NoId \/ clast[s]
    /\ skey' = DelSessionKey(s)
    /\ sttl' = DelSessionTtl(s)
    /\ clast' = ExpirySetFirst(s)
    /\ UNCHANGED <<ctrs, ckey, procVars, reaperVars, histVars, rateVars, facadeVars, execVars, cttl, smCalls, toolVars>>

\* Redis drops container:<id> when its TTL runs out.
ExpireContainerKey(s) ==
    /\ ckey[s] # NoId
    /\ ~skey[s].present \/ ~clast[s] \/ sttl[s] = NoExpiry
    /\ ckey' = DelContainerKey(s)
    /\ cttl' = DelContainerTtl(s)
    /\ clast' = ExpirySetFirst(s)
    /\ UNCHANGED <<ctrs, skey, procVars, reaperVars, histVars, rateVars, facadeVars, execVars, sttl, smCalls, toolVars>>

\* ----------------------------------------------------------------- rate limiter

\* settings.rate_limit_requests (default 100), scaled down.
RateLimitRequests == 2

\* INCR is not followed further than this count.
MaxRateCount == RateLimitRequests + 2

\* Mutant of RateDecision: the threshold is off by one.
RateDecisionOffByOne(count) ==
    IF count > RateLimitRequests + 1 THEN "denied" ELSE "admitted"

\* if count > settings.rate_limit_requests: return False; return True
RateDecision(count) == IF count > RateLimitRequests THEN "denied" ELSE "admitted"

\* TTL rate:<principal> right after the INCR: -1 when the key has no expiry
\* (INCR created it, or nobody has set one yet), else the seconds left.
RateTtl(key) == IF key.ttl THEN 1 ELSE -1

\* INCR rate:<principal>: a missing key counts as 0 and is created without
\* expiry; an existing key keeps its expiry.
RateIncr(key) == [key EXCEPT !.count = key.count + 1]

\* check_rate_limit: pipe.incr(key); pipe.ttl(key); results = pipe.execute()
\* (one MULTI/EXEC transaction); then `if ttl == -1` and the threshold test.
RlPipeline(p, u) ==
    /\ rlpc[p] \in {"idle", "admitted", "denied"}
    /\ rate[u].count < MaxRateCount
    /\ rate' = [rate EXCEPT ![u] = RateIncr(rate[u])]
    /\ rlusr' = [rlusr EXCEPT ![p] = u]
    /\ rlcount' = [rlcount EXCEPT ![p] = RateIncr(rate[u]).count]
    /\ rlttl' = [rlttl EXCEPT ![p] = RateTtl(RateIncr(rate[u]))]
    /\ rlpc' = [rlpc EXCEPT ![p] =
                  IF RateTtl(RateIncr(rate[u])) = -1 THEN "rl_expire"
                  ELSE RateDecision(RateIncr(rate[u]).count)]
    /\ admitted' = [admitted EXCEPT ![u] =
                      IF RateDecision(RateIncr(rate[u]).count) = "admitted"
                      THEN admitted[u] + 1 ELSE admitted[u]]
    /\ UNCHANGED <<sessVars, facadeVars, execVars, smVars, toolVars>>

\* redis_client.expire(key, settings.rate_limit_window_seconds) (no effect on
\* a missing key); ttl = window; then the threshold test.
RlExpire(p) ==
    /\ rlpc[p] = "rl_expire"
    /\ rate' = [rate EXCEPT ![rlusr[p]] =
                  IF rate[rlusr[p]].count > 0
                  THEN [rate[rlusr[p]] EXCEPT !.ttl = TRUE]
                  ELSE rate[rlusr[p]]]
    /\ rlttl' = [rlttl EXCEPT ![p] = 1]
    /\ rlpc' = [rlpc EXCEPT ![p] = RateDecision(rlcount[p])]
    /\ UNCHANGED <<sessVars, facadeVars, execVars, smVars, toolVars, rlusr, rlcount, admitted>>

\* Redis drops rate:<principal> when its TTL runs out: the window is over.
RateKeyExpires(u) ==
    /\ rate[u].count > 0
    /\ rate[u].ttl
    /\ rate' = [rate EXCEPT ![u] = NoRate]
    /\ admitted' = [admitted EXCEPT ![u] = 0]
    /\ UNCHANGED <<sessVars, facadeVars, execVars, smVars, toolVars, rlpc, rlusr, rlcount, rlttl>>

\* --------------------------------------------------------------------- facades

\* The two adapters: the HTTP routers and the MCP tool server.
Facades == {"http", "mcp"}

\* h1 is a handler of the HTTP routers, h2 one of the MCP tool server.
Fronts(p) == IF p = "h1" THEN {"http"} ELSE {"mcp"}

\* Stages of a request handler whose call reaches the core (orchestrator,
\* session store, container).
CoreStages == {"goc", "refresh", "exec", "fileop", "delete"}

WorkspaceCommands ==
    {"workspace_list", "workspace_read", "workspace_write", "workspace_delete",
     "workspace_upload"}

\* The commands each facade exposes (the MCP server has no upload tool).
FacadeCommands(facade) ==
    {"execute", "create_session", "delete_session"} \cup
    (IF facade = "http" THEN WorkspaceCommands
     ELSE WorkspaceCommands \ {"workspace_upload"})

\* The calls a handler makes, in the order of its statements:
\*   whitelist  ensure_command_allowed(command)
\*   rate       ensure_rate_limit(redis_client, user_id)
\*   goc        orchestrator.get_or_create_container(session_id, user_id)
\*   refresh    orchestrator.session_manager.refresh_session(session_id)
\*   sanitize   resolve_workspace_path(path)
\*   required   if not resolved: raise HTTPException(400, "path is required ...")
\*   exec       orchestrator.execute_in_container(...)
\*   fileop     workspace_list / workspace_read / workspace_write / workspace_delete
\*   delete     the session delete (get_session ... delete_session)
Pipeline(facade, cmd) ==
    IF cmd = "execute" THEN <<"whitelist", "rate", "goc", "refresh", "exec">>
    ELSE IF cmd = "create_session"
         THEN IF facade = "http" THEN <<"goc">> ELSE <<"rate", "goc">>
    ELSE IF cmd = "delete_session" THEN <<"delete">>
    ELSE IF facade = "mcp" /\ cmd # "workspace_list"
         THEN <<"rate", "goc", "refresh", "sanitize", "required", "fileop">>
    ELSE <<"rate", "goc", "refresh", "sanitize", "fileop">>

\* Strings are sequences of characters.

\* str.strip(): white space goes from both ends.
RECURSIVE LeftStrip(_, _)
LeftStrip(s, ch) ==
    IF s # <<>> /\ Head(s) = ch THEN LeftStrip(Tail(s), ch) ELSE s

RECURSIVE RightStrip(_, _)
RightStrip(s, ch) ==
    IF s # <<>> /\ s[Len(s)] = ch
    THEN RightStrip(SubSeq(s, 1, Len(s) - 1), ch) ELSE s

Strip(s) == RightStrip(LeftStrip(s, " "), " ")

\* str.split(sep): the pieces between the separators, empty ones included.
RECURSIVE SplitFrom(_, _, _, _)
SplitFrom(s, sep, piece, pieces) ==
    IF s = <<>> THEN Append(pieces, piece)
    ELSE IF Head(s) = sep
         THEN SplitFrom(Tail(s), sep, <<>>, Append(pieces, piece))
    ELSE SplitFrom(Tail(s), sep, Append(piece, Head(s)), pieces)

Split(s, sep) == SplitFrom(s, sep, <<>>, <<>>)

\* sep.join(pieces)
RECURSIVE Join(_, _)
Join(pieces, sep) ==
    IF pieces = <<>> THEN <<>>
    ELSE IF Len(pieces) = 1 THEN Head(pieces)
    ELSE Head(pieces) \o <<sep>> \o Join(Tail(pieces), sep)

\* str.lower()
LowerChar(ch) == IF ch = "L" THEN "l" ELSE IF ch = "X" THEN "x" ELSE ch
Lower(s) == [i \in DOMAIN s |-> LowerChar(s[i])]

\* The whitelist, with names of one letter (settings.allowed_commands_set).
AllowedCommands == {<<"l">>}

\* Longest command followed.
MaxCommandLen == 4

\* The characters of commands: an allowed name, its upper case, another
\* name, white space, the directory separator, the quote and the escape.
CommandChars == {"l", "L", "x", " ", "/", "'", "\\"}

RECURSIVE StringsOver(_, _)
StringsOver(chars, n) ==
    IF n = 0 THEN {<<>>}
    ELSE LET shorter == StringsOver(chars, n - 1)
         IN shorter \cup {Append(s, ch) : s \in {x \in shorter : Len(x) = n - 1},
                                           ch \in chars}

Commands == StringsOver(CommandChars, MaxCommandLen)

\* The commands of requests on the facades.
Binaries == {<<"l">>, <<"x">>}

\* shlex.split raised ValueError (no closing quotation, no escaped character).
ShlexValueError == << <<"ValueError">> >>

\* shlex.split(s, posix=True): the loop of shlex.read_token over the
\* characters, in the states of the lexer.
RECURSIVE ShlexFrom(_, _, _, _)
ShlexFrom(s, state, token, parts) ==
    IF s = <<>>
    THEN IF state \in {"quote", "escape"} THEN ShlexValueError
         ELSE IF state = "word" THEN Append(parts, token)
         ELSE parts
    ELSE LET ch == Head(s)
             rest == Tail(s)
         IN IF state = "space"
            THEN IF ch = " " THEN ShlexFrom(rest, "space", <<>>, parts)
                 ELSE IF ch = "\\" THEN ShlexFrom(rest, "escape", <<>>, parts)
                 ELSE IF ch = "'" THEN ShlexFrom(rest, "quote", <<>>, parts)
                 ELSE ShlexFrom(rest, "word", <<ch>>, parts)
            ELSE IF state = "word"
            THEN IF ch = " "
                 THEN ShlexFrom(rest, "space", <<>>, Append(parts, token))
                 ELSE IF ch = "\\" THEN ShlexFrom(rest, "escape", token, parts)
                 ELSE IF ch = "'" THEN ShlexFrom(rest, "quote", token, parts)
                 ELSE ShlexFrom(rest, "word", Append(token, ch), parts)
            ELSE IF state = "quote"
            THEN IF ch = "'" THEN ShlexFrom(rest, "word", token, parts)
                 ELSE ShlexFrom(rest, "quote", Append(token, ch), parts)
            ELSE ShlexFrom(rest, "word", Append(token, ch), parts)

ShlexSplit(s) == ShlexFrom(s, "space", <<>>, <<>>)

FirstSegment(binary) == Head(Split(binary, "/"))

\* if "/" in binary: binary = binary.split("/")[-1]
LastSegment(binary) ==
    LET pieces == Split(binary, "/") IN pieces[Len(pieces)]

\* is_command_allowed raises: shlex.split cannot parse the command.
CommandUnparseable(cmd) ==
    Strip(cmd) # <<>> /\ ShlexSplit(Strip(cmd)) = ShlexValueError

\* is_command_allowed, when it returns.
IsCommandAllowed(cmd) ==
    LET stripped == Strip(cmd)
    IN IF stripped = <<>> THEN FALSE
       ELSE LET parts == ShlexSplit(stripped)
            IN IF parts = <<>> THEN FALSE
               ELSE LastSegment(Lower(parts[1])) \in AllowedCommands

\* ensure_command_allowed: returns, raises HTTPException 400, or is left by
\* the ValueError of shlex.split.
EnsureCommandAllowed(cmd) ==
    IF CommandUnparseable(cmd) THEN "ValueError"
    ELSE IF IsCommandAllowed(cmd) THEN "ok"
    ELSE "command-forbidden"

\* Longest path followed.
MaxPathLen == 7

\* The characters of paths: a letter, the dot, the separator, white space.
PathChars == {"a", ".", "/", " "}

Paths == StringsOver(PathChars, MaxPathLen)

\* The paths of requests on the facades.
FacadePaths == {<<"a">>, <<".">>, <<".", ".">>}

\* resolve_workspace_path raised inside its loop.
Escapes == << <<"/">> >>

\* The loop with ".." at the root kept as a segment.
RECURSIVE ResolveFromKeepsParent(_, _)
ResolveFromKeepsParent(parts, res) ==
    IF parts = <<>> THEN res
    ELSE IF Head(parts) \in {<<".">>, <<>>}
         THEN ResolveFromKeepsParent(Tail(parts), res)
    ELSE IF Head(parts) = <<".", ".">> /\ res # <<>>
         THEN ResolveFromKeepsParent(Tail(parts), SubSeq(res, 1, Len(res) - 1))
    ELSE ResolveFromKeepsParent(Tail(parts), Append(res, Head(parts)))

\* The loop of resolve_workspace_path over the parts still to read.
RECURSIVE ResolveFrom(_, _)
ResolveFrom(parts, res) ==
    IF parts = <<>> THEN res
    ELSE IF Head(parts) \in {<<".">>, <<>>} THEN ResolveFrom(Tail(parts), res)
    ELSE IF Head(parts) = <<".", ".">>
         THEN IF res # <<>>
              THEN ResolveFrom(Tail(parts), SubSeq(res, 1, Len(res) - 1))
              ELSE Escapes
    ELSE ResolveFrom(Tail(parts), Append(res, Head(parts)))

ResolveWorkspacePath(path) ==
    LET p == LeftStrip(Strip(path), "/")
    IN IF p = <<>> THEN <<>>
       ELSE LET res == ResolveFrom(Split(p, "/"), <<>>)
            IN IF res = Escapes THEN BadPath ELSE Join(res, "/")

\* "/workspace", the directory name being one character of the model.
Workspace == <<"/", "workspace">>

\* container_path(path)
ContainerPath(path) ==
    IF path = <<>> THEN Workspace ELSE Workspace \o <<"/">> \o path

\* The requests handler p may receive: both facades serve one principal, so
\* that their requests meet in one rate bucket.
Requests(p) ==
    {[facade |-> f, cmd |-> c, user |-> u, binary |-> b, path |-> w] :
        f \in Fronts(p), c \in FacadeCommands("http"), u \in {Alice},
        b \in Binaries \cup {<<>>}, w \in FacadePaths \cup {<<>>}}

WellFormed(r) ==
    /\ r.cmd \in FacadeCommands(r.facade)
    /\ (r.binary # <<>>) = (r.cmd = "execute")
    /\ (r.path # <<>>) = (r.cmd \in WorkspaceCommands)

\* The pipeline of the request p serves, the stage p is about to run ("none"
\* when p serves no request) and the stages p has run and passed.
Stages(p) == Pipeline(freq[p].facade, freq[p].cmd)
Stage(p) == IF fout[p] = "pending" THEN Stages(p)[fidx[p]] ELSE "none"
Passed(p) == {Stages(p)[i] : i \in 1..(fidx[p] - 1)}

\* The stage returned: on to the next one, or the request is answered.
Advance(p) ==
    /\ fidx' = [fidx EXCEPT ![p] = fidx[p] + 1]
    /\ fout' = [fout EXCEPT ![p] =
                  IF fidx[p] = Len(Stages(p)) THEN "ok" ELSE "pending"]
    /\ UNCHANGED <<freq, fnum, fw>>

\* The stage raised: the request is answered with the failure.
Reject(p, kind) ==
    /\ fout' = [fout EXCEPT ![p] = kind]
    /\ UNCHANGED <<freq, fidx, fnum, fw>>

\* Requests followed on each handler.
MaxRequests == 1

\* An authenticated request reaches a handler that serves no request; the
\* other handler may be anywhere in its own.
FacadeStart(p, r) ==
    /\ fout[p] = "none"
    /\ fnum[p] < MaxRequests
    /\ fnum' = [fnum EXCEPT ![p] = @ + 1]
    /\ WellFormed(r)
    /\ freq' = [freq EXCEPT ![p] = r]
    /\ fidx' = [fidx EXCEPT ![p] = 1]
    /\ fout' = [fout EXCEPT ![p] = "pending"]
    /\ UNCHANGED <<fw, sessVars, rateVars, execVars, smVars, toolVars>>

\* The answer is sent: the request and the locals of its handler are gone.
FacadeFinish(p) ==
    /\ fout[p] \notin {"none", "pending"}
    /\ freq' = [freq EXCEPT ![p] = NoRequest]
    /\ fidx' = [fidx EXCEPT ![p] = 0]
    /\ fout' = [fout EXCEPT ![p] = "none"]
    /\ usr' = [usr EXCEPT ![p] = NoStr]
    /\ sid' = [sid EXCEPT ![p] = NoStr]
    /\ cid' = [cid EXCEPT ![p] = NoId]
    /\ raced' = raced \ {p}
    /\ prev' = [prev EXCEPT ![p] = NoId]
    /\ delh' = [delh EXCEPT ![p] = "none"]
    /\ UNCHANGED <<ctrs, storeVars, pc, reaperVars, fnum, fw, rateVars, execVars, smVars,
                   toolVars>>

\* ensure_command_allowed(command): HTTP 400 unless the whitelist admits it.
FacadeWhitelist(p) ==
    /\ Stage(p) = "whitelist"
    /\ IF EnsureCommandAllowed(freq[p].binary) = "ok" THEN Advance(p)
       ELSE Reject(p, EnsureCommandAllowed(freq[p].binary))
    /\ UNCHANGED <<sessVars, rateVars, execVars, smVars, toolVars>>

\* ensure_rate_limit calls check_rate_limit: the pipeline, ...
FacadeRateCall(p) ==
    /\ Stage(p) = "rate"
    /\ rlpc[p] = "idle"
    /\ RlPipeline(p, freq[p].user)

\* ... the expire if the key had no expiry, ...
FacadeRateExpire(p) ==
    /\ Stage(p) = "rate"
    /\ RlExpire(p)

\* ... and HTTP 429 if check_rate_limit returned False.  The locals of
\* check_rate_limit are gone.
FacadeRateReturn(p) ==
    /\ Stage(p) = "rate"
    /\ rlpc[p] \in {"admitted", "denied"}
    /\ rlpc' = [rlpc EXCEPT ![p] = "idle"]
    /\ rlusr' = [rlusr EXCEPT ![p] = NoStr]
    /\ rlcount' = [rlcount EXCEPT ![p] = 0]
    /\ rlttl' = [rlttl EXCEPT ![p] = 0]
    /\ IF rlpc[p] = "denied" THEN Reject(p, "rate-limited") ELSE Advance(p)
    /\ UNCHANGED <<sessVars, rate, admitted, execVars, smVars, toolVars>>

\* resolve_workspace_path(path): HTTP 400 if the path escapes the workspace.
FacadeSanitize(p) ==
    /\ Stage(p) = "sanitize"
    /\ IF ResolveWorkspacePath(freq[p].path) = BadPath THEN Reject(p, "bad-path")
       ELSE Advance(p)
    /\ UNCHANGED <<sessVars, rateVars, execVars, smVars, toolVars>>

\* if not resolved: raise HTTPException(status_code=400, ...)
FacadeRequired(p) ==
    /\ Stage(p) = "required"
    /\ IF ResolveWorkspacePath(freq[p].path) = <<>> THEN Reject(p, "path-required")
       ELSE Advance(p)
    /\ UNCHANGED <<sessVars, rateVars, execVars, smVars, toolVars>>

\* ------------------------------------------- handler: execute_in_container

\* Values of timeout_seconds: below 1, inside the range, above the maximum.
Timeouts == (0 - 1)..(MaxExecTimeout + 1)

\* Who calls execute_in_container: the HTTP route passes body.timeout on, the
\* MCP tool clamps it first; "direct" is a caller that keeps one orchestrator.
Callers == {"http", "mcp", "direct"}

Min2(a, b) == IF a <= b THEN a ELSE b

Max2(a, b) == IF a >= b THEN a ELSE b

ClampTimeoutNoFloor(t) == Min2(t, MaxExecTimeout)

\* timeout = min(max(1, timeout_seconds), settings.max_exec_timeout_seconds)
ClampTimeout(t) == Min2(Max2(1, t), MaxExecTimeout)

\* mcp_server.execute: timeout = max(1, min(timeout, max_exec_timeout_seconds))
McpClampTimeout(t) == Max2(1, Min2(t, MaxExecTimeout))

\* What container.exec_run hands back: the demuxed streams (or None) and the
\* exit code (or None).
ExecRunResults ==
    { [out |-> "out", err |-> "none", has_code |-> TRUE,  exit_code |-> 0],
      [out |-> "none", err |-> "err", has_code |-> TRUE,  exit_code |-> 1],
      [out |-> "none", err |-> "none", has_code |-> FALSE, exit_code |-> 0] }

\* The tuple run_exec returns: a missing stream is "", a missing exit code 0.
RunExecReturn(r) ==
    Result(Text(IF r.out = "none" THEN "" ELSE r.out),
           Text(IF r.err = "none" THEN "" ELSE r.err),
           IF r.has_code THEN r.exit_code ELSE 0)

\* Exceptions exec_run (or submit) can raise: an error of the runtime, or a
\* TimeoutError of its own.
ExecErrors ==
    { [type |-> "APIError", msg |-> "No such container"],
      [type |-> "TimeoutError", msg |-> "timed out"] }

\* except concurrent.futures.TimeoutError
TimedOutResult(n) == Result(Text(""), TimedOutMessage(n), 0 - 1)

\* except Exception as e
ErrorResult(e) == Result(Text(""), Text(e.msg), 0 - 1)

\* The call left by an exception.
RaisedResult == [NoResult EXCEPT !.raised = TRUE]

\* get_orchestrator(): a new ContainerOrchestrator, with a new pool, for the
\* request.
GetOrchestrator(k, caller) ==
    IF caller = "direct" THEN SharedOrchestrator ELSE k

\* Jobs a worker of the pool of orchestrator o is running.
PoolBusy(o) == {k \in Calls : orch[k] = o /\ future[k].state = "running"}

\* Execs outstanding in the process: handed to exec_run and not back yet.
Outstanding == {k \in Calls : future[k].state = "running"}

WaitExpiredNever(k) == FALSE

\* future.result(timeout=timeout): the wait is over once `timeout` seconds
\* have gone by.
WaitExpired(k) == elapsed[k] >= timeout[k]

\* The call: timeout is clamped, start is taken.
ExecCall(k, caller, t) ==
    /\ epc[k] = "idle"
    /\ LET passed == IF caller = "mcp" THEN McpClampTimeout(t) ELSE t
       IN /\ timeout_seconds' = [timeout_seconds EXCEPT ![k] = passed]
          /\ timeout' = [timeout EXCEPT ![k] = ClampTimeout(passed)]
    /\ orch' = [orch EXCEPT ![k] = GetOrchestrator(k, caller)]
    /\ epc' = [epc EXCEPT ![k] = "submit"]
    /\ UNCHANGED <<elapsed, future, result>>
    /\ UNCHANGED <<sessVars, rateVars, facadeVars, smVars, toolVars>>

\* future = self._executor.submit(run_exec): the job is queued.
ExecSubmit(k) ==
    /\ epc[k] = "submit"
    /\ future' = [future EXCEPT ![k] = [NoFuture EXCEPT !.state = "queued"]]
    /\ epc' = [epc EXCEPT ![k] = "wait"]
    /\ UNCHANGED <<orch, timeout_seconds, timeout, elapsed, result>>
    /\ UNCHANGED <<sessVars, rateVars, facadeVars, smVars, toolVars>>

ExecReturnErrorRaises(k, e) ==
    /\ result' = [result EXCEPT ![k] = RaisedResult]
    /\ epc' = [epc EXCEPT ![k] = "returned"]

\* except Exception as e: the failure is returned in the result.
ExecReturnError(k, e) ==
    /\ result' = [result EXCEPT ![k] = ErrorResult(e)]
    /\ epc' = [epc EXCEPT ![k] = "returned"]

\* submit raises (the pool was shut down).
ExecSubmitFails(k) ==
    /\ epc[k] = "submit"
    /\ ExecReturnError(k, [type |-> "RuntimeError",
                           msg |-> "cannot schedule new futures after shutdown"])
    /\ UNCHANGED <<orch, timeout_seconds, timeout, elapsed, future>>
    /\ UNCHANGED <<sessVars, rateVars, facadeVars, smVars, toolVars>>

\* A free worker of the pool takes the job.
PoolStart(k) ==
    /\ future[k].state = "queued"
    /\ Cardinality(PoolBusy(orch[k])) < MaxWorkers
    /\ future' = [future EXCEPT ![k].state = "running"]
    /\ UNCHANGED <<orch, epc, timeout_seconds, timeout, elapsed, result>>
    /\ UNCHANGED <<sessVars, rateVars, facadeVars, smVars, toolVars>>

\* run_exec returns.
PoolFinish(k, r) ==
    /\ future[k].state = "running"
    /\ future' = [future EXCEPT ![k] =
                    [state |-> "finished", value |-> RunExecReturn(r),
                     error |-> NoError]]
    /\ UNCHANGED <<orch, epc, timeout_seconds, timeout, elapsed, result>>
    /\ UNCHANGED <<sessVars, rateVars, facadeVars, smVars, toolVars>>

\* run_exec raises.
PoolRaise(k, e) ==
    /\ future[k].state = "running"
    /\ future' = [future EXCEPT ![k] =
                    [state |-> "raised", value |-> NoResult, error |-> e]]
    /\ UNCHANGED <<orch, epc, timeout_seconds, timeout, elapsed, result>>
    /\ UNCHANGED <<sessVars, rateVars, facadeVars, smVars, toolVars>>

\* future.result returns the tuple of run_exec.
ExecReturnResult(k) ==
    /\ epc[k] = "wait"
    /\ future[k].state = "finished"
    /\ result' = [result EXCEPT ![k] = future[k].value]
    /\ epc' = [epc EXCEPT ![k] = "returned"]
    /\ UNCHANGED <<orch, timeout_seconds, timeout, elapsed, future>>
    /\ UNCHANGED <<sessVars, rateVars, facadeVars, smVars, toolVars>>

\* future.result re-raises what run_exec raised.  A TimeoutError of run_exec
\* is concurrent.futures.TimeoutError where the two are one class (Python
\* 3.11 and later) and is then reported as a timeout of the call.
ExecReturnRaised(k) ==
    /\ epc[k] = "wait"
    /\ future[k].state = "raised"
    /\ \/ ExecReturnError(k, future[k].error)
       \/ /\ future[k].error.type = "TimeoutError"
          /\ result' = [result EXCEPT ![k] = TimedOutResult(timeout[k])]
          /\ epc' = [epc EXCEPT ![k] = "returned"]
    /\ UNCHANGED <<orch, timeout_seconds, timeout, elapsed, future>>
    /\ UNCHANGED <<sessVars, rateVars, facadeVars, smVars, toolVars>>

\* future.result raises concurrent.futures.TimeoutError: the job is still
\* queued or running (and stays so).
ExecTimeout(k) ==
    /\ epc[k] = "wait"
    /\ WaitExpired(k)
    /\ future[k].state \in {"queued", "running"}
    /\ result' = [result EXCEPT ![k] = TimedOutResult(timeout[k])]
    /\ epc' = [epc EXCEPT ![k] = "returned"]
    /\ UNCHANGED <<orch, timeout_seconds, timeout, elapsed, future>>
    /\ UNCHANGED <<sessVars, rateVars, facadeVars, smVars, toolVars>>

\* A second goes by for the calls waiting in future.result; none of them
\* sleeps through the end of its wait.
Tick ==
    /\ \E k \in Calls : epc[k] = "wait"
    /\ \A k \in Calls : epc[k] = "wait" =>
            ~WaitExpired(k) /\ elapsed[k] <= MaxExecTimeout
    /\ elapsed' = [k \in Calls |->
                     IF epc[k] = "wait" THEN elapsed[k] + 1 ELSE elapsed[k]]
    /\ UNCHANGED <<orch, epc, timeout_seconds, timeout, future, result>>
    /\ UNCHANGED <<sessVars, rateVars, facadeVars, smVars, toolVars>>

\* ------------------------------------------------------------ session manager

\* The operations of SessionManager command by command, with the seconds the
\* two keys have left.

\* The callers of create_session.
Creators == {"h1"}

\* A caller is inside refresh_session.
Refreshing(p) == mpc[p] \in {"rf_expire_s", "rf_expire_c", "rf_hincrby"}

\* Caller p has written a key: the refreshes of the others are not alone.
Meddle(p) == [q \in Procs |-> IF q = p THEN rfalone[q] ELSE FALSE]

\* HINCRBY session:<id> command_count 1: a missing key is created, holding
\* that one field and no expiry.
Hincrby(session) ==
    IF session.present
    THEN [session EXCEPT !.command_count = @ + 1]
    ELSE [NoSession EXCEPT !.present = TRUE, !.command_count = 1]

\* create_session: HSET session:<id> mapping=...
CreateHsetSession(p, s, u, c) ==
    /\ mpc[p] = "idle"
    /\ skey' = HsetSession(s, u, c)
    /\ sttl' = HsetSessionTtl(s)
    /\ mpc' = [mpc EXCEPT ![p] = "cs_expire"]
    /\ msid' = [msid EXCEPT ![p] = s]
    /\ mcid' = [mcid EXCEPT ![p] = c]
    /\ rfdone' = [rfdone EXCEPT ![s] = 0]
    /\ rfalone' = Meddle(p)
    /\ UNCHANGED <<ckey, clast, cttl, rfpre, rfage>>
    /\ UNCHANGED <<ctrs, procVars, reaperVars, histVars, rateVars, facadeVars, execVars,
                   toolVars>>

\* create_session: EXPIRE session:<id> ttl
CreateExpireSession(p) ==
    /\ mpc[p] = "cs_expire"
    /\ sttl' = ExpireSessionTtl(msid[p])
    /\ clast' = IF skey[msid[p]].present THEN ExpirySetFirst(msid[p]) ELSE clast
    /\ mpc' = [mpc EXCEPT ![p] = "cs_set"]
    /\ rfalone' = Meddle(p)
    /\ UNCHANGED <<skey, ckey, cttl, msid, mcid, rfpre, rfage, rfdone>>
    /\ UNCHANGED <<ctrs, procVars, reaperVars, histVars, rateVars, facadeVars, execVars,
                   toolVars>>

\* create_session: SET container:<id> container_id EX ttl
CreateSetContainerKey(p) ==
    /\ mpc[p] = "cs_set"
    /\ ckey' = SetContainerKey(msid[p], mcid[p])
    /\ cttl' = [cttl EXCEPT ![msid[p]] = SessionTtl]
    /\ clast' = ExpirySetLast(msid[p])
    /\ mpc' = [mpc EXCEPT ![p] = "idle"]
    /\ msid' = [msid EXCEPT ![p] = NoStr]
    /\ mcid' = [mcid EXCEPT ![p] = NoId]
    /\ rfalone' = Meddle(p)
    /\ UNCHANGED <<skey, sttl, rfpre, rfage, rfdone>>
    /\ UNCHANGED <<ctrs, procVars, reaperVars, histVars, rateVars, facadeVars, execVars,
                   toolVars>>

\* HSET session:<id> container_id <value>: a missing key is created, holding
\* that one field and no expiry.
HsetContainerId(session, container_id) ==
    IF session.present
    THEN [session EXCEPT !.container_id = container_id]
    ELSE [NoSession EXCEPT !.present = TRUE, !.container_id = container_id]

\* set_container_for_session: SET container:<id> container_id EX ttl
SetForSetContainerKey(p, s, c) ==
    /\ mpc[p] = "idle"
    /\ ckey' = SetContainerKey(s, c)
    /\ cttl' = [cttl EXCEPT ![s] = SessionTtl]
    /\ clast' = ExpirySetLast(s)
    /\ mpc' = [mpc EXCEPT ![p] = "sc_exists"]
    /\ msid' = [msid EXCEPT ![p] = s]
    /\ mcid' = [mcid EXCEPT ![p] = c]
    /\ rfalone' = Meddle(p)
    /\ UNCHANGED <<skey, sttl, rfpre, rfage, rfdone>>
    /\ UNCHANGED <<ctrs, procVars, reaperVars, histVars, rateVars, facadeVars, execVars,
                   toolVars>>

\* set_container_for_session: if self.redis.exists(session_key):
SetForExists(p) ==
    /\ mpc[p] = "sc_exists"
    /\ IF skey[msid[p]].present
       THEN /\ mpc' = [mpc EXCEPT ![p] = "sc_hset"]
            /\ UNCHANGED <<msid, mcid>>
       ELSE /\ mpc' = [mpc EXCEPT ![p] = "idle"]
            /\ msid' = [msid EXCEPT ![p] = NoStr]
            /\ mcid' = [mcid EXCEPT ![p] = NoId]
    /\ UNCHANGED <<skey, ckey, clast, sttl, cttl, rfpre, rfalone, rfage, rfdone>>
    /\ UNCHANGED <<ctrs, procVars, reaperVars, histVars, rateVars, facadeVars, execVars,
                   toolVars>>

\* set_container_for_session: self.redis.hset(session_key, "container_id", ...)
SetForHset(p) ==
    /\ mpc[p] = "sc_hset"
    /\ skey' = [skey EXCEPT ![msid[p]] = HsetContainerId(@, mcid[p])]
    /\ sttl' = HsetSessionTtl(msid[p])
    /\ mpc' = [mpc EXCEPT ![p] = "sc_expire"]
    /\ rfalone' = Meddle(p)
    /\ UNCHANGED <<ckey, clast, cttl, msid, mcid, rfpre, rfage, rfdone>>
    /\ UNCHANGED <<ctrs, procVars, reaperVars, histVars, rateVars, facadeVars, execVars,
                   toolVars>>

\* set_container_for_session: self.redis.expire(session_key, self.session_ttl)
SetForExpire(p) ==
    /\ mpc[p] = "sc_expire"
    /\ sttl' = ExpireSessionTtl(msid[p])
    /\ clast' = IF skey[msid[p]].present THEN ExpirySetFirst(msid[p]) ELSE clast
    /\ mpc' = [mpc EXCEPT ![p] = "idle"]
    /\ msid' = [msid EXCEPT ![p] = NoStr]
    /\ mcid' = [mcid EXCEPT ![p] = NoId]
    /\ rfalone' = Meddle(p)
    /\ UNCHANGED <<skey, ckey, cttl, rfpre, rfage, rfdone>>
    /\ UNCHANGED <<ctrs, procVars, reaperVars, histVars, rateVars, facadeVars, execVars,
                   toolVars>>

\* refresh_session: if not self.redis.exists(session_key): return False
RefreshExistsStep(p, s) ==
    /\ mpc[p] = "idle"
    /\ skey[s].command_count + Cardinality({q \in Procs : Refreshing(q)})
         < MaxCommandCount
    /\ rfdone[s] + Cardinality({q \in Procs : Refreshing(q)}) < MaxCommandCount
    /\ IF skey[s].present
       THEN /\ mpc' = [mpc EXCEPT ![p] = "rf_expire_s"]
            /\ msid' = [msid EXCEPT ![p] = s]
            /\ rfpre' = [rfpre EXCEPT ![p] =
                           [session |-> skey[s], container |-> ckey[s]]]
            /\ rfalone' = [rfalone EXCEPT ![p] = TRUE]
       ELSE UNCHANGED <<mpc, msid, rfpre, rfalone>>
    /\ rfage' = [rfage EXCEPT ![p] = 0]
    /\ UNCHANGED <<skey, ckey, clast, sttl, cttl, mcid, rfdone>>
    /\ UNCHANGED <<ctrs, procVars, reaperVars, histVars, rateVars, execVars, toolVars>>

\* refresh_session called by itself.
RefreshExists(p, s) == RefreshExistsStep(p, s) /\ UNCHANGED facadeVars

\* refresh_session: self.redis.expire(session_key, self.session_ttl)
RefreshExpireSession(p) ==
    /\ mpc[p] = "rf_expire_s"
    /\ sttl' = IF skey[msid[p]].present
               THEN [sttl EXCEPT ![msid[p]] = SessionTtl] ELSE sttl
    /\ clast' = ExpirySetFirst(msid[p])
    /\ mpc' = [mpc EXCEPT ![p] = "rf_expire_c"]
    /\ rfalone' = Meddle(p)
    /\ UNCHANGED <<skey, ckey, cttl, msid, mcid, rfpre, rfage, rfdone>>
    /\ UNCHANGED <<ctrs, procVars, reaperVars, histVars, rateVars, facadeVars, execVars,
                   toolVars>>

\* refresh_session: self.redis.expire(container_key, self.session_ttl)
RefreshExpireContainer(p) ==
    /\ mpc[p] = "rf_expire_c"
    /\ cttl' = IF ckey[msid[p]] # NoId
               THEN [cttl EXCEPT ![msid[p]] = SessionTtl] ELSE cttl
    /\ clast' = IF ckey[msid[p]] # NoId THEN ExpirySetLast(msid[p]) ELSE clast
    /\ mpc' = [mpc EXCEPT ![p] = "rf_hincrby"]
    /\ rfalone' = Meddle(p)
    /\ UNCHANGED <<skey, ckey, sttl, msid, mcid, rfpre, rfage, rfdone>>
    /\ UNCHANGED <<ctrs, procVars, reaperVars, histVars, rateVars, facadeVars, execVars,
                   toolVars>>

\* refresh_session: self.redis.hincrby(session_key, "command_count", 1);
\* return True
RefreshHincrbyStep(p) ==
    /\ mpc[p] = "rf_hincrby"
    /\ skey' = [skey EXCEPT ![msid[p]] = Hincrby(@)]
    /\ sttl' = IF skey[msid[p]].present
               THEN sttl ELSE [sttl EXCEPT ![msid[p]] = NoExpiry]
    /\ mpc' = [mpc EXCEPT ![p] = "idle"]
    /\ msid' = [msid EXCEPT ![p] = NoStr]
    /\ rfdone' = [rfdone EXCEPT ![msid[p]] = @ + 1]
    /\ rfpre' = [rfpre EXCEPT ![p] = NoKeys]
    /\ rfalone' = [Meddle(p) EXCEPT ![p] = FALSE]
    /\ rfage' = [rfage EXCEPT ![p] = 0]
    /\ UNCHANGED <<ckey, clast, cttl, mcid>>
    /\ UNCHANGED <<ctrs, procVars, reaperVars, histVars, rateVars, execVars, toolVars>>

\* refresh_session called by itself returns.
RefreshHincrby(p) == RefreshHincrbyStep(p) /\ UNCHANGED facadeVars

\* What a second does to the seconds a key has left.
Lapse(ttl) == IF ttl > 0 THEN ttl - 1 ELSE ttl

\* session:<s> (container:<s>) runs out with this second.
SessionLapses(s) == skey[s].present /\ sttl[s] = 1
ContainerLapses(s) == ckey[s] # NoId /\ cttl[s] = 1

\* A second goes by: Redis drops the keys whose TTL runs out.  A
\* refresh_session is short: no more than one turn of the second falls into
\* a call.
StoreTick ==
    /\ \E s \in Sessions : sttl[s] > 0 \/ cttl[s] > 0
    /\ \A p \in Procs : Refreshing(p) => rfage[p] = 0
    /\ sttl' = [s \in Sessions |-> Lapse(sttl[s])]
    /\ cttl' = [s \in Sessions |-> Lapse(cttl[s])]
    /\ skey' = [s \in Sessions |->
                  IF SessionLapses(s) THEN NoSession ELSE skey[s]]
    /\ ckey' = [s \in Sessions |->
                  IF ContainerLapses(s) THEN NoId ELSE ckey[s]]
    /\ clast' = [s \in Sessions |->
                  IF SessionLapses(s) \/ ContainerLapses(s)
                  THEN FALSE ELSE clast[s]]
    /\ rfage' = [p \in Procs |->
                  IF Refreshing(p) THEN rfage[p] + 1 ELSE rfage[p]]
    /\ UNCHANGED <<mpc, msid, mcid, rfpre, rfalone, rfdone>>
    /\ UNCHANGED <<ctrs, procVars, reaperVars, histVars, rateVars, facadeVars, execVars,
                   toolVars>>

\* ------------------------------------------------------------ pure functions

\* ensure_command_allowed(command)
CheckCommand ==
    /\ allowed = "none"
    /\ allowed' = EnsureCommandAllowed(command)
    /\ UNCHANGED <<command, raw_path, resolved, wfile, wpc, content, wchunks, rdata>>
    /\ UNCHANGED <<cfg_user, cfg_session, cfg_name>>
    /\ UNCHANGED <<sessVars, rateVars, facadeVars, execVars, smVars>>

\* resolve_workspace_path(path)
ResolvePath ==
    /\ resolved = Unresolved
    /\ resolved' = ResolveWorkspacePath(raw_path)
    /\ UNCHANGED <<command, allowed, raw_path, wfile, wpc, content, wchunks, rdata>>
    /\ UNCHANGED <<cfg_user, cfg_session, cfg_name>>
    /\ UNCHANGED <<sessVars, rateVars, facadeVars, execVars, smVars>>

\* Longest identifier followed, the long ones apart.
MaxIdLen == 2

\* The characters of identifiers: a letter, the hyphen, and a character that
\* _sanitize_name replaces (as in "api:<key>").
IdChars == {"a", "-", ":"}

\* Identifiers around the length of the slice.
LongIds ==
    {[i \in 1..n |-> "a"] : n \in (SanitizeLimit - 1)..(SanitizeLimit + 1)}

\* user_id and session_id are not empty (min_length=1; a principal is a
\* non-empty string).
NameIds == (StringsOver(IdChars, MaxIdLen) \ {<<>>}) \cup LongIds

\* name = f"exec-{...}-{...}" in _container_config
BuildName ==
    /\ cfg_user # NoStr
    /\ cfg_name = NoStr
    /\ cfg_name' = ContainerName(cfg_user, cfg_session)
    /\ UNCHANGED <<cfg_user, cfg_session>>
    /\ UNCHANGED <<command, allowed, raw_path, resolved, wfile, wpc, content, wchunks, rdata>>
    /\ UNCHANGED <<sessVars, rateVars, facadeVars, execVars, smVars>>

\* ---------------------------------------------------------- workspace files

\* settings.workspace_max_file_size_bytes and _WRITE_CHUNK_RAW, scaled down.
MaxFileSize == 3
WriteChunkRaw == 2

\* Bytes: an ASCII letter, and a byte that no UTF-8 text contains.
Bytes == {97, 255}

\* The contents asked to be written: up to one byte more than the limit.
Contents == StringsOver(Bytes, MaxFileSize + 1)

\* What the file holds before the write: nothing, or some bytes.
PriorFiles ==
    {NoFile} \cup {[exists |-> TRUE, data |-> d] : d \in StringsOver(Bytes, 2)}

\* The paths written to: in the workspace root, and in a directory.
WritePaths == {<<"a">>, <<"a", "/", "a">>}

\* The padding character of base64; the others are the numbers 0..63.
Pad == 64

\* base64.b64encode(raw)
RECURSIVE B64Encode(_)
B64Encode(raw) ==
    IF raw = <<>> THEN <<>>
    ELSE IF Len(raw) = 1
         THEN LET n == raw[1] * 65536
              IN <<n \div 262144, (n \div 4096) % 64, Pad, Pad>>
    ELSE IF Len(raw) = 2
         THEN LET n == raw[1] * 65536 + raw[2] * 256
              IN <<n \div 262144, (n \div 4096) % 64, (n \div 64) % 64, Pad>>
    ELSE LET n == raw[1] * 65536 + raw[2] * 256 + raw[3]
         IN <<n \div 262144, (n \div 4096) % 64, (n \div 64) % 64, n % 64>>
                \o B64Encode(SubSeq(raw, 4, Len(raw)))

Sextet(ch) == IF ch = Pad THEN 0 ELSE ch

\* base64 -d in the container
RECURSIVE B64Decode(_)
B64Decode(b64) ==
    IF Len(b64) < 4 THEN <<>>
    ELSE LET n == Sextet(b64[1]) * 262144 + Sextet(b64[2]) * 4096
                    + Sextet(b64[3]) * 64 + Sextet(b64[4])
             three == <<n \div 65536, (n \div 256) % 256, n % 256>>
             pads == Cardinality({i \in 3..4 : b64[i] = Pad})
         IN SubSeq(three, 1, 3 - pads) \o B64Decode(SubSeq(b64, 5, Len(b64)))

\* raw_chunks[i], counted from 0
RawChunk(data, i) ==
    SubSeq(data, i * WriteChunkRaw + 1, Min2(Len(data), (i + 1) * WriteChunkRaw))

NumChunks(data) == (Len(data) + WriteChunkRaw - 1) \div WriteChunkRaw

\* The shell opens the redirection of chunk i, > for the first chunk and >>
\* after it, and the first n decoded bytes reach the file.
RedirectSome(file, i, b64, n) ==
    [exists |-> TRUE,
     data |-> IF i = 0 THEN SubSeq(B64Decode(b64), 1, n)
              ELSE file.data \o SubSeq(B64Decode(b64), 1, n)]

\* sh -c "echo '<b64>' | base64 -d > path" (>> after the first chunk), exit 0.
Redirect(file, i, b64) == RedirectSome(file, i, b64, Len(B64Decode(b64)))

\* touch path: an existing file keeps what it holds.
Touch(file) == IF file.exists THEN file ELSE [exists |-> TRUE, data |-> <<>>]

\* data.decode("utf-8") succeeds
Utf8Valid(data) == \A i \in DOMAIN data : data[i] < 128

\* workspace_read: cat, the size limit, then text or base64.
WorkspaceRead(file) ==
    IF ~file.exists
    THEN [status |-> "not-found", encoding |-> "none", content |-> <<>>]
    ELSE IF Len(file.data) > MaxFileSize
    THEN [status |-> "too-large", encoding |-> "none", content |-> <<>>]
    ELSE IF Utf8Valid(file.data)
    THEN [status |-> "ok", encoding |-> "utf8", content |-> file.data]
    ELSE [status |-> "ok", encoding |-> "base64", content |-> B64Encode(file.data)]

WriteRest ==
    <<command, allowed, raw_path, resolved, content, rdata, cfg_user, cfg_session, cfg_name>>

\* if max_size > 0 and len(content) > max_size: raise HTTPException(400)
SizeCheck(data) == IF Len(data) > MaxFileSize THEN "too-large" ELSE "mkdir"

\* workspace_write: the size limit.
WriteCheckSize ==
    /\ wpc = "idle"
    /\ raw_path \in WritePaths
    /\ wpc' = SizeCheck(content)
    /\ UNCHANGED <<wfile, wchunks>>
    /\ UNCHANGED WriteRest
    /\ UNCHANGED <<sessVars, rateVars, facadeVars, execVars, smVars>>

\* mkdir -p of the parent, for a path with a directory part.
WriteMkdir(ok) ==
    /\ wpc = "mkdir"
    /\ IF \E i \in DOMAIN ResolveWorkspacePath(raw_path) :
                ResolveWorkspacePath(raw_path)[i] = "/"
       THEN wpc' = IF ok THEN "write" ELSE "failed"
       ELSE ok /\ wpc' = "write"
    /\ UNCHANGED <<wfile, wchunks>>
    /\ UNCHANGED WriteRest
    /\ UNCHANGED <<sessVars, rateVars, facadeVars, execVars, smVars>>

\* What container.exec_run does with a command: exit code 0, another exit
\* code, or an exception of the client (the container is not running).
ExecOutcomes == {"ok", "exit", "raised"}

\* Empty content: touch, whose exit code is not read, and return; an
\* exception of exec_run becomes HTTPException 400.
WriteTouch(o) ==
    /\ wpc = "write"
    /\ content = <<>>
    /\ wfile' = IF o = "ok" THEN Touch(wfile) ELSE wfile
    /\ wpc' = IF o = "raised" THEN "failed" ELSE "written"
    /\ UNCHANGED wchunks
    /\ UNCHANGED WriteRest
    /\ UNCHANGED <<sessVars, rateVars, facadeVars, execVars, smVars>>

\* One chunk of the loop.  A command that fails ends the write with 400: the
\* shell could not open the file (n = 0 - 1, the file is as before), or it
\* opened it, truncating it for the first chunk, and base64 stopped after n
\* bytes.
WriteChunk(o, n) ==
    /\ wpc = "write"
    /\ content # <<>>
    /\ wchunks < NumChunks(content)
    /\ LET b64 == B64Encode(RawChunk(content, wchunks))
       IN IF o = "ok"
          THEN /\ n = Len(RawChunk(content, wchunks))
               /\ wfile' = Redirect(wfile, wchunks, b64)
               /\ wchunks' = wchunks + 1
               /\ wpc' = IF wchunks + 1 = NumChunks(content) THEN "written" ELSE "write"
          ELSE /\ n < Len(RawChunk(content, wchunks))
               /\ o = "raised" => n = 0 - 1
               /\ wfile' = IF n = 0 - 1 THEN wfile
                           ELSE RedirectSome(wfile, wchunks, b64, n)
               /\ wpc' = "failed"
               /\ UNCHANGED wchunks
    /\ UNCHANGED WriteRest
    /\ UNCHANGED <<sessVars, rateVars, facadeVars, execVars, smVars>>

\* workspace_delete refuses the workspace root before it runs a command.
DeleteRefused(path) == ContainerPath(path) = Workspace

\* rm -rf removes the file (a missing one is no error), or fails and leaves it.
RemoveFile(file, o) == IF o = "ok" THEN NoFile ELSE file

\* workspace_delete of the path, a request of its own: 400 for the root,
\* else rm -rf, whose failure is a 400 (or the exception of exec_run).
WorkspaceDelete(o) ==
    /\ raw_path \in WritePaths
    /\ wfile' = IF DeleteRefused(raw_path) THEN wfile ELSE RemoveFile(wfile, o)
    /\ UNCHANGED <<wpc, wchunks>>
    /\ UNCHANGED WriteRest
    /\ UNCHANGED <<sessVars, rateVars, facadeVars, execVars, smVars>>

\* workspace_read of the path, after the write has returned.
ReadFile ==
    /\ wpc = "written"
    /\ rdata' = WorkspaceRead(wfile)
    /\ wpc' = "read"
    /\ UNCHANGED <<command, allowed, raw_path, resolved, content, wfile, wchunks>>
    /\ UNCHANGED <<cfg_user, cfg_session, cfg_name>>
    /\ UNCHANGED <<sessVars, rateVars, facadeVars, execVars, smVars>>

\* ------------------------------------------------ facades: calls into the core

\* The call of execute_in_container that handler p makes.
CallOf(p) == IF p = "h1" THEN 1 ELSE 2

\* container = orchestrator.get_or_create_container(session_id, user_id)
FacadeGocCall(p) ==
    /\ Stage(p) = "goc"
    /\ pc[p] = "idle"
    /\ \E s \in Sessions : GocStart(p, freq[p].user, s)

\* get_or_create_container has returned the container, or raised.
FacadeGocReturn(p) ==
    /\ Stage(p) = "goc"
    /\ pc[p] \in {"done", "raised"}
    /\ pc' = [pc EXCEPT ![p] = "idle"]
    /\ IF pc[p] = "done" THEN Advance(p) ELSE Reject(p, "core-error")
    /\ UNCHANGED <<ctrs, storeVars, usr, sid, cid, reaperVars, histVars, rateVars, execVars,
                   smVars, toolVars>>

\* The body of delete_session, from get_session on.
FacadeDeleteCall(p) ==
    /\ Stage(p) = "delete"
    /\ pc[p] = "idle"
    /\ \E s \in Sessions : DelStart(p, freq[p].user, s)

\* return {"status": "deleted", ...}, or HTTPException 403.
FacadeDeleteReturn(p) ==
    /\ Stage(p) = "delete"
    /\ pc[p] \in {"deleted", "forbidden"}
    /\ pc' = [pc EXCEPT ![p] = "idle"]
    /\ IF pc[p] = "deleted" THEN Advance(p) ELSE Reject(p, "forbidden")
    /\ UNCHANGED <<ctrs, storeVars, usr, sid, cid, reaperVars, histVars, rateVars, execVars,
                   smVars, toolVars>>

\* orchestrator.session_manager.refresh_session(session_id): EXISTS; the
\* handler does not read what the call returns.
FacadeRefreshCall(p) ==
    /\ Stage(p) = "refresh"
    /\ mpc[p] = "idle"
    /\ RefreshExistsStep(p, sid[p])
    /\ IF skey[sid[p]].present THEN UNCHANGED facadeVars ELSE Advance(p)

\* refresh_session: HINCRBY; return True
FacadeRefreshReturn(p) ==
    /\ Stage(p) = "refresh"
    /\ RefreshHincrbyStep(p)
    /\ Advance(p)

\* The timeout the execute requests ask for: one second.
FacadeTimeouts == {1}

\* result = orchestrator.execute_in_container(container, command, timeout, ...)
FacadeExecCall(p) ==
    /\ Stage(p) = "exec"
    /\ epc[CallOf(p)] = "idle"
    /\ \E t \in FacadeTimeouts : ExecCall(CallOf(p), freq[p].facade, t)

\* execute_in_container has returned; its locals are gone, and a job that a
\* timed-out call left in the pool is followed no further.
FacadeExecReturn(p) ==
    /\ Stage(p) = "exec"
    /\ epc[CallOf(p)] = "returned"
    /\ epc' = [epc EXCEPT ![CallOf(p)] = "idle"]
    /\ orch' = [orch EXCEPT ![CallOf(p)] = SharedOrchestrator]
    /\ timeout_seconds' = [timeout_seconds EXCEPT ![CallOf(p)] = 0]
    /\ timeout' = [timeout EXCEPT ![CallOf(p)] = 0]
    /\ elapsed' = [elapsed EXCEPT ![CallOf(p)] = 0]
    /\ future' = [future EXCEPT ![CallOf(p)] = NoFuture]
    /\ result' = [result EXCEPT ![CallOf(p)] = NoResult]
    /\ IF result[CallOf(p)].raised THEN Reject(p, "core-error") ELSE Advance(p)
    /\ UNCHANGED <<sessVars, rateVars, smVars, toolVars>>

\* The path the handler hands to the file operation.
FilePath(p) == ResolveWorkspacePath(freq[p].path)

\* The file at the path in the workspace of container c; at the workspace
\* root a directory stands.
FileIn(c, path) ==
    IF path = <<>> THEN [exists |-> TRUE, data |-> <<>>]
    ELSE IF Live(c) THEN ctrs[c].file
    ELSE NoFile

\* The containers after a command has left file at the path in container c.
FileOut(c, path, file) ==
    IF Live(c) /\ path # <<>> THEN [ctrs EXCEPT ![c].file = file] ELSE ctrs

\* exec_run in container c raises unless the container is running.
FileOutcomes(c) == IF Running(c) THEN {"ok", "exit"} ELSE {"raised"}

\* workspace_list(container, resolved): ls -1p, 404 for a missing path.
FacadeList(p) ==
    /\ Stage(p) = "fileop"
    /\ freq[p].cmd = "workspace_list"
    /\ IF Running(cid[p]) /\ FileIn(cid[p], FilePath(p)).exists
       THEN Advance(p) ELSE Reject(p, "core-error")
    /\ UNCHANGED <<sessVars, rateVars, execVars, smVars, toolVars>>

\* workspace_read(container, resolved, max_size): cat, 400 for a directory.
FacadeRead(p) ==
    /\ Stage(p) = "fileop"
    /\ freq[p].cmd = "workspace_read"
    /\ IF /\ Running(cid[p])
          /\ FilePath(p) # <<>>
          /\ WorkspaceRead(FileIn(cid[p], FilePath(p))).status = "ok"
       THEN Advance(p) ELSE Reject(p, "core-error")
    /\ UNCHANGED <<sessVars, rateVars, execVars, smVars, toolVars>>

\* workspace_delete(container, resolved)
FacadeWorkspaceDelete(p, o) ==
    /\ Stage(p) = "fileop"
    /\ freq[p].cmd = "workspace_delete"
    /\ o \in FileOutcomes(cid[p])
    /\ IF DeleteRefused(FilePath(p))
       THEN Reject(p, "core-error") /\ UNCHANGED ctrs
       ELSE /\ ctrs' = FileOut(cid[p], FilePath(p),
                               RemoveFile(FileIn(cid[p], FilePath(p)), o))
            /\ IF o = "ok" THEN Advance(p) ELSE Reject(p, "core-error")
    /\ UNCHANGED <<storeVars, procVars, reaperVars, histVars, rateVars, execVars, smVars,
                   toolVars>>

\* The bodies of write and upload requests.
FacadeContents == {<<>>, <<97>>}

\* The call of workspace_write of handler p is at position at.
WriteAt(p, at) == [fw EXCEPT ![p].pc = at]

\* workspace_write(container, resolved, content, max_size): the size limit.
FacadeWriteCall(p, data) ==
    /\ Stage(p) = "fileop"
    /\ freq[p].cmd \in {"workspace_write", "workspace_upload"}
    /\ fw[p].pc = "idle"
    /\ fw' = [fw EXCEPT ![p] = [pc |-> SizeCheck(data), content |-> data, chunks |-> 0]]
    /\ UNCHANGED <<freq, fidx, fout, fnum>>
    /\ UNCHANGED <<sessVars, rateVars, execVars, smVars, toolVars>>

\* mkdir -p of the parent, for a path with a directory part.
FacadeWriteMkdir(p, o) ==
    /\ fw[p].pc = "mkdir"
    /\ IF \E i \in DOMAIN FilePath(p) : FilePath(p)[i] = "/"
       THEN o \in FileOutcomes(cid[p]) /\ fw' = WriteAt(p, IF o = "ok" THEN "write" ELSE "failed")
       ELSE o = "ok" /\ fw' = WriteAt(p, "write")
    /\ UNCHANGED <<freq, fidx, fout, fnum>>
    /\ UNCHANGED <<sessVars, rateVars, execVars, smVars, toolVars>>

\* Empty content: touch in the container of the handler, and return.
FacadeWriteTouch(p, o) ==
    /\ fw[p].pc = "write"
    /\ fw[p].content = <<>>
    /\ o \in FileOutcomes(cid[p])
    /\ ctrs' = IF o = "ok"
               THEN FileOut(cid[p], FilePath(p), Touch(FileIn(cid[p], FilePath(p))))
               ELSE ctrs
    /\ fw' = WriteAt(p, IF o = "raised" THEN "failed" ELSE "written")
    /\ UNCHANGED <<freq, fidx, fout, fnum>>
    /\ UNCHANGED <<storeVars, procVars, reaperVars, histVars, rateVars, execVars, smVars,
                   toolVars>>

\* One chunk of the loop in the container of the handler; the redirection
\* cannot open the workspace root.
FacadeWriteChunk(p, o, n) ==
    /\ fw[p].pc = "write"
    /\ fw[p].content # <<>>
    /\ fw[p].chunks < NumChunks(fw[p].content)
    /\ o \in FileOutcomes(cid[p])
    /\ FilePath(p) = <<>> => (o # "ok" /\ n = 0 - 1)
    /\ LET raw == RawChunk(fw[p].content, fw[p].chunks)
           b64 == B64Encode(raw)
           file == FileIn(cid[p], FilePath(p))
       IN IF o = "ok"
          THEN /\ n = Len(raw)
               /\ ctrs' = FileOut(cid[p], FilePath(p), Redirect(file, fw[p].chunks, b64))
               /\ fw' = [fw EXCEPT ![p].chunks = @ + 1,
                                   ![p].pc = IF fw[p].chunks + 1 = NumChunks(fw[p].content)
                                             THEN "written" ELSE "write"]
          ELSE /\ n < Len(raw)
               /\ o = "raised" => n = 0 - 1
               /\ ctrs' = IF n = 0 - 1 THEN ctrs
                          ELSE FileOut(cid[p], FilePath(p),
                                       RedirectSome(file, fw[p].chunks, b64, n))
               /\ fw' = WriteAt(p, "failed")
    /\ UNCHANGED <<freq, fidx, fout, fnum>>
    /\ UNCHANGED <<storeVars, procVars, reaperVars, histVars, rateVars, execVars, smVars,
                   toolVars>>

\* workspace_write has returned, or raised HTTPException 400.
FacadeWriteReturn(p) ==
    /\ Stage(p) = "fileop"
    /\ fw[p].pc \in {"too-large", "failed", "written"}
    /\ fw' = [fw EXCEPT ![p] = NoWrite]
    /\ fidx' = [fidx EXCEPT ![p] = IF fw[p].pc = "written" THEN fidx[p] + 1 ELSE fidx[p]]
    /\ fout' = [fout EXCEPT ![p] = IF fw[p].pc = "written" THEN "ok" ELSE "core-error"]
    /\ UNCHANGED <<freq, fnum>>
    /\ UNCHANGED <<sessVars, rateVars, execVars, smVars, toolVars>>

\* ---------------------------------------------------------------- specification

\* Request handlers against the store and the runtime, with key expiry and
\* out-of-band container exit and removal.  The cleanup worker is not part of
\* this specification: what it does to the shared state, removing a container
\* and deleting the two keys of its session, also happens here through
\* ExternalRemove and the expiry of the keys.
Next ==
    \/ \E p \in Procs, s \in Sessions : \E u \in Serves(p) : GocStart(p, u, s)
    \/ \E p \in Procs : GocContainersGet(p)
    \/ \E p \in Procs : GocRemoveExited(p)
    \/ \E p \in Procs : GocDeleteSessionKey(p)
    \/ \E p \in Procs : GocDeleteContainerKey(p)
    \/ \E p \in Procs : GocContainersCreate(p)
    \/ \E p \in Procs : GocContainerStart(p)
    \/ \E p \in Procs : GocHsetSession(p)
    \/ \E p \in Procs : GocExpireSession(p)
    \/ \E p \in Procs : GocSetContainerKey(p)
    \/ \E p \in Procs, s \in Sessions : \E u \in Serves(p) : DelStart(p, u, s)
    \/ \E p \in Procs : DelHgetall(p)
    \/ \E p \in Procs : DelGetContainerId(p)
    \/ \E p \in Procs : DelContainersGet(p)
    \/ \E p \in Procs : DelRemove(p)
    \/ \E p \in Procs : DelDeleteSessionKey(p)
    \/ \E p \in Procs : DelDeleteContainerKey(p)
    \/ \E c \in Ids : ExternalRemove(c)
    \/ \E c \in Ids : ExternalExit(c)
    \/ \E s \in Sessions : ExpireSessionKey(s)
    \/ \E s \in Sessions : ExpireContainerKey(s)

Spec == Init /\ [][Next]_vars

\* Concurrent callers of check_rate_limit, and the expiry of the rate keys.
NextRate ==
    \/ \E p \in Procs : \E u \in Users : RlPipeline(p, u)
    \/ \E p \in Procs : RlExpire(p)
    \/ \E u \in Users : RateKeyExpires(u)

SpecRate == Init /\ [][NextRate]_vars

\* The requests of handler p whose command is one of cmds.
Taking(p, cmds, paths) ==
    {r \in Requests(p) : WellFormed(r) /\ r.cmd \in cmds /\ r.path \in paths \cup {<<>>}}

\* Every handler runs next to the other one, the cleanup worker, the expiry
\* of the keys and containers growing old and exiting; the specifications of
\* the facades differ in the requests that arrive.

\* What the handlers do in every request: the answer, the rate limiter and
\* get_or_create_container.
FacadeHandlers ==
    \/ \E p \in Procs : FacadeFinish(p)
    \/ \E p \in Procs : FacadeRateCall(p)
    \/ \E p \in Procs : FacadeRateExpire(p)
    \/ \E p \in Procs : FacadeRateReturn(p)
    \/ \E p \in Procs : FacadeGocCall(p)
    \/ \E p \in Procs : GocContainersGet(p)
    \/ \E p \in Procs : GocRemoveExited(p)
    \/ \E p \in Procs : GocDeleteSessionKey(p)
    \/ \E p \in Procs : GocDeleteContainerKey(p)
    \/ \E p \in Procs : GocContainersCreate(p)
    \/ \E p \in Procs : GocContainerStart(p)
    \/ \E p \in Procs : GocHsetSession(p)
    \/ \E p \in Procs : GocExpireSession(p)
    \/ \E p \in Procs : GocSetContainerKey(p)
    \/ \E p \in Procs : FacadeGocReturn(p)

\* The session delete.
FacadeDeletes ==
    \/ \E p \in Procs : FacadeDeleteCall(p)
    \/ \E p \in Procs : DelHgetall(p)
    \/ \E p \in Procs : DelGetContainerId(p)
    \/ \E p \in Procs : DelContainersGet(p)
    \/ \E p \in Procs : DelRemove(p)
    \/ \E p \in Procs : DelDeleteSessionKey(p)
    \/ \E p \in Procs : DelDeleteContainerKey(p)
    \/ \E p \in Procs : FacadeDeleteReturn(p)

\* refresh_session in the requests that call it.
FacadeRefreshes ==
    \/ \E p \in Procs : FacadeRefreshCall(p)
    \/ \E p \in Procs : RefreshExpireSession(p)
    \/ \E p \in Procs : RefreshExpireContainer(p)
    \/ \E p \in Procs : FacadeRefreshReturn(p)

\* What runs next to the handlers: the cleanup worker, Redis dropping keys,
\* containers growing old and exiting.
FacadeSurroundings ==
    \/ \E u \in Users : RateKeyExpires(u)
    \/ \E c \in Ids : ExternalExit(c)
    \/ \E s \in Sessions : ExpireSessionKey(s)
    \/ \E s \in Sessions : ExpireContainerKey(s)
    \/ \E c \in Ids : Age(c)
    \/ ReaperList
    \/ \E c \in Ids : ReaperRemove(c)
    \/ ReaperDeleteSessionKey
    \/ ReaperDeleteContainerKey
    \/ ReaperStoreError
    \/ ReaperSleep

\* Session requests: creates and deletes on the HTTP routes next to creates
\* and deletes of the MCP tools.
SessionCommands == {"create_session", "delete_session"}

NextFacade ==
    \/ \E p \in Procs : \E r \in Taking(p, SessionCommands, {}) : FacadeStart(p, r)
    \/ FacadeHandlers
    \/ FacadeDeletes
    \/ FacadeSurroundings

SpecFacade == Init /\ [][NextFacade]_vars

\* The state earlier requests of user_id for session_id have left, with file
\* at the workspace path and count commands on the session record: the
\* container runs, and both keys name it and have their full time to live.
SessionInPlace(user_id, session_id, file, count) ==
    /\ InitHandlers
    /\ ctrs = [c \in Ids |->
                 IF c = 1
                 THEN [state |-> "running", name |-> ContainerName(user_id, session_id),
                       user |-> user_id, labelled |-> TRUE, session |-> session_id,
                       stamp |-> "ok", aged |-> FALSE, file |-> file]
                 ELSE NoCtr]
    /\ skey = [s \in Sessions |->
                 IF s = session_id
                 THEN [present |-> TRUE, user_id |-> user_id, container_id |-> 1,
                       created_at |-> "now", command_count |-> count]
                 ELSE NoSession]
    /\ ckey = [s \in Sessions |-> IF s = session_id THEN 1 ELSE NoId]
    /\ clast = [s \in Sessions |-> s = session_id]
    /\ sttl = [s \in Sessions |-> IF s = session_id THEN SessionTtl ELSE 0]
    /\ cttl = [s \in Sessions |-> IF s = session_id THEN SessionTtl ELSE 0]
    /\ ToolsAt(<<>>, <<>>, NoFile, <<>>)
    /\ NamesAt(NoStr, NoStr)

\* After a create_session.
InitSession == SessionInPlace(Alice, S1, NoFile, 0)

\* After a workspace write that made the session.
InitFiles == SessionInPlace(Alice, S1, [exists |-> TRUE, data |-> <<97>>], 1)

\* What the command of the execute requests followed here does in the
\* container: it fails, or the container is gone.
FacadeRunResults ==
    { [out |-> "none", err |-> "err", has_code |-> TRUE, exit_code |-> 1] }

FacadeExecErrors == { [type |-> "APIError", msg |-> "No such container"] }

\* execute_in_container in the requests that call it.
FacadeExecutes ==
    \/ \E p \in Procs : FacadeWhitelist(p)
    \/ \E p \in Procs : FacadeExecCall(p)
    \/ \E k \in Calls : ExecSubmit(k)
    \/ \E k \in Calls : ExecSubmitFails(k)
    \/ \E k \in Calls : PoolStart(k)
    \/ \E k \in Calls, r \in FacadeRunResults : PoolFinish(k, r)
    \/ \E k \in Calls, e \in FacadeExecErrors : PoolRaise(k, e)
    \/ \E k \in Calls : ExecReturnResult(k)
    \/ \E k \in Calls : ExecReturnRaised(k)
    \/ \E k \in Calls : ExecTimeout(k)
    \/ Tick
    \/ \E p \in Procs : FacadeExecReturn(p)

\* The MCP tool execute next to a session delete on the HTTP route.
ExecuteCommands(p) == IF p = "h1" THEN {"delete_session"} ELSE {"execute"}

NextFacadeExecute ==
    \/ \E p \in Procs : \E r \in Taking(p, ExecuteCommands(p), {}) : FacadeStart(p, r)
    \/ FacadeHandlers
    \/ FacadeDeletes
    \/ FacadeRefreshes
    \/ FacadeExecutes
    \/ FacadeSurroundings

SpecFacadeExecute == InitSession /\ [][NextFacadeExecute]_vars

\* The execute route next to a session delete of the MCP server.
ExecuteRouteCommands(p) == IF p = "h1" THEN {"execute"} ELSE {"delete_session"}

NextFacadeExecuteRoute ==
    \/ \E p \in Procs : \E r \in Taking(p, ExecuteRouteCommands(p), {}) :
          FacadeStart(p, r)
    \/ FacadeHandlers
    \/ FacadeDeletes
    \/ FacadeRefreshes
    \/ FacadeExecutes
    \/ FacadeSurroundings

SpecFacadeExecuteRoute == InitSession /\ [][NextFacadeExecuteRoute]_vars

\* resolve_workspace_path and the file operations that read.
FacadeReads ==
    \/ \E p \in Procs : FacadeSanitize(p)
    \/ \E p \in Procs : FacadeList(p)
    \/ \E p \in Procs : FacadeRead(p)

\* The file operations that change the workspace.
FacadeWrites ==
    \/ \E p \in Procs : FacadeSanitize(p)
    \/ \E p \in Procs, o \in ExecOutcomes : FacadeWorkspaceDelete(p, o)
    \/ \E p \in Procs, data \in FacadeContents : FacadeWriteCall(p, data)
    \/ \E p \in Procs, o \in ExecOutcomes : FacadeWriteMkdir(p, o)
    \/ \E p \in Procs, o \in ExecOutcomes : FacadeWriteTouch(p, o)
    \/ \E p \in Procs, o \in ExecOutcomes, n \in (0 - 1)..WriteChunkRaw :
          FacadeWriteChunk(p, o, n)
    \/ \E p \in Procs : FacadeWriteReturn(p)

\* The workspace routes that read, next to a session delete of the MCP
\* server; the paths are a file and one that leaves the workspace.
ReadCommands(p) ==
    IF p = "h1" THEN {"workspace_list", "workspace_read"} ELSE {"delete_session"}

ReadPaths == {<<"a">>, <<".", ".">>}

NextFacadeWorkspace ==
    \/ \E p \in Procs : \E r \in Taking(p, ReadCommands(p), ReadPaths) :
          FacadeStart(p, r)
    \/ FacadeHandlers
    \/ FacadeDeletes
    \/ FacadeRefreshes
    \/ FacadeReads
    \/ FacadeSurroundings

SpecFacadeWorkspace == InitFiles /\ [][NextFacadeWorkspace]_vars

\* The MCP tools that change the workspace, next to a session delete on the
\* HTTP route; the paths are a file and the workspace itself.
ToolCommands(p) ==
    IF p = "h1" THEN {"delete_session"} ELSE {"workspace_write", "workspace_delete"}

ToolPaths == {<<"a">>, <<".">>}

NextFacadeTools ==
    \/ \E p \in Procs : \E r \in Taking(p, ToolCommands(p), ToolPaths) :
          FacadeStart(p, r)
    \/ FacadeHandlers
    \/ FacadeDeletes
    \/ FacadeRefreshes
    \/ FacadeWrites
    \/ \E p \in Procs : FacadeRequired(p)
    \/ FacadeSurroundings

SpecFacadeTools == InitFiles /\ [][NextFacadeTools]_vars

\* The handlers the cleanup worker runs next to.
SweepClients == {"h2"}

\* The cleanup worker next to requests of get_or_create_container, with
\* containers growing old, keys expiring and foreign containers on the daemon.
NextReaper ==
    \/ ReaperList
    \/ \E c \in Ids : ReaperRemove(c)
    \/ ReaperDeleteSessionKey
    \/ ReaperDeleteContainerKey
    \/ ReaperStoreError
    \/ ReaperSleep
    \/ \E c \in Ids : Age(c)
    \/ \E k \in ForeignKinds, s \in Sessions : ForeignCreate(k, s)
    \/ \E p \in SweepClients, s \in Sessions : \E u \in Serves(p) : GocStart(p, u, s)
    \/ \E p \in SweepClients : GocContainersGet(p)
    \/ \E p \in SweepClients : GocRemoveExited(p)
    \/ \E p \in SweepClients : GocDeleteSessionKey(p)
    \/ \E p \in SweepClients : GocDeleteContainerKey(p)
    \/ \E p \in SweepClients : GocContainersCreate(p)
    \/ \E p \in SweepClients : GocContainerStart(p)
    \/ \E p \in SweepClients : GocHsetSession(p)
    \/ \E p \in SweepClients : GocExpireSession(p)
    \/ \E p \in SweepClients : GocSetContainerKey(p)
    \/ \E c \in Ids : ExternalExit(c)
    \/ \E s \in Sessions : ExpireSessionKey(s)
    \/ \E s \in Sessions : ExpireContainerKey(s)

SpecReaper == Init /\ [][NextReaper]_vars

\* The removal of container c by the sweep goes through.
ReaperRemoved(c) == ReaperRemove(c) /\ Live(c) /\ ~Live(c)'

\* The cleanup worker keeps running (main: while True ... time.sleep(interval)):
\* a step it can take it does take.  Whether the daemon or the store answers
\* is not up to the worker, and nothing is assumed of it.
ReaperFairness ==
    /\ WF_vars(ReaperList)
    /\ WF_vars(ReaperDeleteSessionKey \/ ReaperStoreError)
    /\ WF_vars(ReaperDeleteContainerKey \/ ReaperStoreError)
    /\ WF_vars(ReaperSleep)
    /\ \A c \in Ids : WF_vars(ReaperRemove(c))

SpecReaperLive == SpecReaper /\ ReaperFairness

\* Calls of execute_in_container on one orchestrator and its pool.
NextExec ==
    \/ \E k \in Calls, caller \in Callers, t \in Timeouts : ExecCall(k, caller, t)
    \/ \E k \in Calls : ExecSubmit(k)
    \/ \E k \in Calls : ExecSubmitFails(k)
    \/ \E k \in Calls : PoolStart(k)
    \/ \E k \in Calls, r \in ExecRunResults : PoolFinish(k, r)
    \/ \E k \in Calls, e \in ExecErrors : PoolRaise(k, e)
    \/ \E k \in Calls : ExecReturnResult(k)
    \/ \E k \in Calls : ExecReturnRaised(k)
    \/ \E k \in Calls : ExecTimeout(k)
    \/ Tick

SpecExec == Init /\ [][NextExec]_vars

\* Time goes by and a caller whose wait is over, or whose future is done,
\* gets the processor.  Nothing is assumed of the pool or of the exec.
ExecFairness ==
    /\ WF_vars(Tick)
    /\ \A k \in Calls :
        /\ WF_vars(ExecReturnResult(k))
        /\ WF_vars(ExecReturnRaised(k))
        /\ WF_vars(ExecTimeout(k))

SpecExecLive == SpecExec /\ ExecFairness

\* The session manager: create_session and refresh_session of two callers on
\* the keys of a session, with their TTLs running.
NextRefresh ==
    \/ \E p \in Creators, s \in Sessions, c \in Ids :
          \E u \in Serves(p) : CreateHsetSession(p, s, u, c)
    \/ \E p \in Creators : CreateExpireSession(p)
    \/ \E p \in Creators : CreateSetContainerKey(p)
    \/ \E p \in Procs, s \in Sessions : RefreshExists(p, s)
    \/ \E p \in Procs : RefreshExpireSession(p)
    \/ \E p \in Procs : RefreshExpireContainer(p)
    \/ \E p \in Procs : RefreshHincrby(p)
    \/ StoreTick

SpecRefresh == Init /\ [][NextRefresh]_vars

\* set_container_for_session, which no request calls, next to the operations
\* of the session manager that requests do call.
NextSetContainer ==
    \/ NextRefresh
    \/ \E p \in Procs, s \in Sessions, c \in Ids : SetForSetContainerKey(p, s, c)
    \/ \E p \in Procs : SetForExists(p)
    \/ \E p \in Procs : SetForHset(p)
    \/ \E p \in Procs : SetForExpire(p)

SpecSetContainer == Init /\ [][NextSetContainer]_vars

\* The whitelist on every command of the bounded set.
InitWhitelist ==
    /\ InitCore
    /\ NamesAt(NoStr, NoStr)
    /\ \E cmd \in Commands : ToolsAt(cmd, <<>>, NoFile, <<>>)

NextWhitelist == CheckCommand

SpecWhitelist == InitWhitelist /\ [][NextWhitelist]_vars

\* resolve_workspace_path on every path of the bounded set.
InitPath ==
    /\ InitCore
    /\ NamesAt(NoStr, NoStr)
    /\ \E path \in Paths : ToolsAt(<<>>, path, NoFile, <<>>)

NextPath == ResolvePath

SpecPath == InitPath /\ [][NextPath]_vars

\* A write and the read after it, from every prior state of the file.
InitWorkspace ==
    /\ InitCore
    /\ NamesAt(NoStr, NoStr)
    /\ \E path \in WritePaths, file \in PriorFiles, data \in Contents :
          ToolsAt(<<>>, path, file, data)

NextWorkspace ==
    \/ WriteCheckSize
    \/ \E ok \in BOOLEAN : WriteMkdir(ok)
    \/ \E o \in ExecOutcomes : WriteTouch(o)
    \/ \E o \in ExecOutcomes, n \in (0 - 1)..WriteChunkRaw : WriteChunk(o, n)
    \/ ReadFile
    \/ \E o \in ExecOutcomes : WorkspaceDelete(o)

SpecWorkspace == InitWorkspace /\ [][NextWorkspace]_vars

\* The name of the container of every pair of identifiers of the bounded set.
InitName ==
    /\ InitCore
    /\ ToolsAt(<<>>, <<>>, NoFile, <<>>)
    /\ \E user_id \in NameIds, session_id \in NameIds : NamesAt(user_id, session_id)

NextName == BuildName

SpecName == InitName /\ [][NextName]_vars

\* ---------------------------------------------------------------------- claims

\* No handler is inside a request.
Quiescent == \A p \in Procs : pc[p] \in Ready

\* get_or_create_container(s, u) run from the current state with no other
\* step in between and a daemon that obeys: "existing" when it returns the
\* stored container, "creates" when it creates and starts a new container and
\* stores a record for it, "raises" when create hits a name conflict.
GocIsolated(s, u) ==
    LET c == ckey[s]
        replaced == c # NoId /\ GocCheckStatus(c) = "goc_remove"
        conflict == \E d \in Ids : /\ Live(d)
                                   /\ ~(replaced /\ d = c)
                                   /\ ctrs[d].name = ContainerName(u, s)
    IN  IF c # NoId /\ GocCheckStatus(c) = "done" THEN "existing"
        ELSE IF conflict THEN "raises"
        ELSE "creates"

\* C1: in every reachable state the runtime holds at most one live container
\* labelled with a given session_id.
C1_OneLiveContainerPerSession ==
    \A s \in Sessions :
        Cardinality({c \in Ids : Live(c) /\ ctrs[c].session = s}) <= 1

\* C2: for every session with a store record, once no request is under way,
\* either container:<id> names a running container or the next
\* get_or_create_container call of the record's owner returns a running
\* container and leaves container:<id> naming it.
C2_StoreRunningOrRepaired ==
    Quiescent =>
        \A s \in Sessions :
            skey[s].present =>
                \/ Running(ckey[s])
                \/ GocIsolated(s, skey[s].user_id) = "creates"

\* C3: get_or_create_container(session_id, u) never returns a container whose
\* exec.user_id label differs from u.
C3_NeverReturnsForeignContainer ==
    \A p \in Procs :
        (pc[p] = "done" /\ Live(cid[p])) => ctrs[cid[p]].user = usr[p]

\* C4: two callers of get_or_create_container for the same (session_id,
\* user_id) that both read "no container" before either created both return,
\* and return the same container.
C4_RacingCallersReturnSame ==
    \A p \in raced, q \in raced :
        (p # q /\ pc[p] \in Finished /\ pc[q] \in Finished) =>
            /\ pc[p] = "done"
            /\ pc[q] = "done"
            /\ cid[p] = cid[q]

\* C5 as stated: a get_or_create_container call that follows a call with the
\* same session_id and principal, with no delete of the session in between,
\* and that returns, returns the container id the first one returned.
C5_SuccessiveCallsSameContainer ==
    [][\A p \in Procs :
          (pc[p] \notin Ready /\ pc'[p] = "done" /\ prev[p] # NoId)
              => cid'[p] = prev[p]]_vars

\* C5 as amended: when the second call reads from the store the id the first
\* call returned and the runtime reports that container running, it returns
\* that id and creates, removes and stores nothing.
C5_SameContainerWhileRunning ==
    [][\A p \in Procs :
          (/\ pc[p] = "goc_get"
           /\ pc'[p] # "goc_get"
           /\ prev[p] # NoId
           /\ cid[p] = prev[p]
           /\ Running(cid[p]))
              => (/\ pc'[p] = "done"
                  /\ cid'[p] = prev[p]
                  /\ UNCHANGED <<ctrs, skey, ckey>>)]_vars

\* The second of two successive calls has read the first call's container id
\* from the store, and the container is running.
C5_Witness ==
    \E p \in Procs :
        pc[p] = "goc_get" /\ prev[p] # NoId /\ cid[p] = prev[p] /\ Running(cid[p])

\* C6: once no request is under way, if the container id stored for a session
\* is not found in the runtime, the next get_or_create_container call of the
\* record's owner creates and starts a new container and stores it.
C6_DriftRepaired ==
    Quiescent =>
        \A s \in Sessions :
            (skey[s].present /\ ckey[s] # NoId /\ ~Live(ckey[s])) =>
                GocIsolated(s, skey[s].user_id) = "creates"

\* C7: a delete by a principal other than the record's user_id ends forbidden,
\* and no step of it changes a store key or a container.
C7_ForeignDeleteForbidden ==
    [][\A p \in Procs :
          /\ (/\ pc[p] = "del_hgetall"
              /\ pc'[p] # "del_hgetall"
              /\ skey[sid[p]].present
              /\ skey[sid[p]].user_id # usr[p])
                 => (pc'[p] = "forbidden" /\ UNCHANGED <<ctrs, skey, ckey>>)
          /\ (pc[p] \in Ready /\ pc'[p] = "del_hgetall")
                 => UNCHANGED <<ctrs, skey, ckey>>]_vars

\* Bob's delete of Alice's session was refused; the record and its running
\* container are still there.
C7_Witness ==
    \E p \in Procs :
        /\ pc[p] = "forbidden"
        /\ skey[sid[p]].present
        /\ skey[sid[p]].user_id # usr[p]
        /\ ckey[sid[p]] = skey[sid[p]].container_id
        /\ Running(ckey[sid[p]])

\* C8: a delete of a session_id without a session record reports "deleted"
\* and changes no store key and no container.
C8_DeleteAbsentIsNoOp ==
    [][\A p \in Procs :
          /\ \A u \in Users, s \in Sessions :
                (DelStart(p, u, s) /\ ~skey[s].present)
                    => (pc'[p] = "deleted" /\ UNCHANGED <<ctrs, skey, ckey>>)
          /\ (/\ pc[p] = "del_hgetall"
              /\ pc'[p] # "del_hgetall"
              /\ ~skey[sid[p]].present)
                 => (pc'[p] = "deleted" /\ UNCHANGED <<ctrs, skey, ckey>>)]_vars

\* A delete returned "deleted" where there never was a record or a container.
C8_Witness ==
    \E p \in Procs :
        /\ pc[p] = "deleted"
        /\ delh[p] = "none"
        /\ \A s \in Sessions : ~skey[s].present /\ ckey[s] = NoId
        /\ \A c \in Ids : ctrs[c] = NoCtr

\* C9: a delete by the owner never aborts, whatever the removal of the
\* container did, and when it has returned "deleted" both keys of the session
\* are absent (as long as no other request wrote them in the meantime).
C9_OwnerDeleteClearsKeys ==
    \A p \in Procs :
        /\ delh[p] # "none" =>
              pc[p] \in {"del_get_cid", "del_get", "del_remove", "del_del_s", "del_del_c",
                         "deleted"}
        /\ (pc[p] = "deleted" /\ delh[p] \in {"nocid", "removed", "notfound", "error"})
              => (~skey[sid[p]].present /\ ckey[sid[p]] = NoId)

\* The owner's delete returned "deleted" although the removal of the
\* container raised a daemon error: the keys are gone, the container is not.
C9_Witness ==
    \E p \in Procs :
        /\ pc[p] = "deleted"
        /\ delh[p] = "error"
        /\ \E c \in Ids : Live(c) /\ ctrs[c].session = sid[p]

\* C10: in every window (the lifetime of one rate:<principal> key) at most
\* rate_limit_requests calls of check_rate_limit are admitted.
C10_AdmittedAtMostLimit ==
    \A u \in Users : admitted[u] <= RateLimitRequests

\* The window is full and a further caller has been denied.
C10_Witness ==
    \E u \in Users, p \in Procs :
        /\ admitted[u] = RateLimitRequests
        /\ rlusr[p] = u
        /\ rlpc[p] = "denied"
        /\ rlcount[p] = RateLimitRequests + 1

\* C11: the window is fixed: the expiry of rate:<principal>, once set, is
\* never set again, so the key expires one window after the first request of
\* the window; no EXPIRE of check_rate_limit runs on a key that has an expiry.
C11_ExpiryNeverExtended ==
    [][\A p \in Procs : RlExpire(p) => ~rate[rlusr[p]].ttl]_vars

\* The requests that have been rejected before their handler made a call
\* into the core should have made none.
RejectedEarly == {"rate-limited", "command-forbidden", "bad-path"}

\* C12: every command on either facade passes the rate limiter before any
\* call into the core.
C12_RateLimitBeforeCore ==
    \A p \in Procs :
        (fout[p] # "none" /\ (Passed(p) \cup {Stage(p)}) \cap CoreStages # {})
            => "rate" \in Passed(p)

\* C13: an execute request has passed the rate limiter (and incremented the
\* principal's counter) by the time the whitelist rejects it.
C13_RateLimitBeforeWhitelist ==
    \A p \in Procs : fout[p] = "command-forbidden" => "rate" \in Passed(p)

\* C14: a request rejected as rate-limited, command-forbidden or bad-path has
\* made no call into the core.
C14_RejectedHasNoCoreEffect ==
    \A p \in Procs :
        fout[p] \in RejectedEarly => Passed(p) \cap CoreStages = {}

\* C15: every container with the session label whose exec.created_at is
\* older than the maximum age is removed within one cleanup interval: when
\* the sweep that began with the container due is over and the worker goes
\* to sleep, the container (here: one of a session) is gone from the runtime.
C15_OldContainerRemoved ==
    [][ReaperSleep =>
          \A c \in rdue : ctrs[c].session \in Sessions => ~Live(c)]_vars

\* C16: a sweep removes only containers that carry the session label and a
\* readable exec.created_at older than the maximum age, and it deletes no
\* store record of a session whose container it passed over.
C16_SweepSparesOthers ==
    [][/\ \A c \in Ids : ReaperRemoved(c) => ReaperEligible(c)
       /\ ReaperDeleteSessionKey =>
             ~(/\ skey[rsid].present
               /\ skey[rsid].container_id \in rskip
               /\ Live(skey[rsid].container_id))
       /\ ReaperDeleteContainerKey =>
             ~(ckey[rsid] \in rskip /\ Live(ckey[rsid]))]_vars

\* C17: the cleanup worker never removes a container that the live store
\* record of its session points to.
C17_SweepSparesLiveSessions ==
    [][\A c \in Ids :
          ReaperRemoved(c) =>
              ~(/\ ctrs[c].session \in Sessions
                /\ skey[ctrs[c].session].present
                /\ ckey[ctrs[c].session] = c)]_vars

\* C18: a call of execute_in_container never waits longer than its clamped
\* timeout, every call that waits returns, and a call that returns while its
\* exec is still queued or running returns exit_code -1, an empty stdout and
\* "Command timed out after Ns" with N the clamped timeout.
C18_ReturnsWithinTimeout ==
    /\ [](\A k \in Calls :
            epc[k] \in {"wait", "returned"} => elapsed[k] <= timeout[k])
    /\ \A k \in Calls : (epc[k] = "wait") ~> (epc[k] = "returned")
    /\ [][\A k \in Calls :
            (/\ epc[k] = "wait"
             /\ epc'[k] = "returned"
             /\ future[k].state \in {"queued", "running"})
            => result'[k] =
                 [raised |-> FALSE, stdout |-> Text(""),
                  stderr |-> [msg |-> "Command timed out after {timeout}s",
                              n |-> timeout[k]],
                  exit_code |-> 0 - 1]]_vars

\* A call has timed out while still queued behind the one worker, which is
\* kept by an exec whose caller has timed out too.
C18_Witness ==
    \E k, j \in Calls :
        /\ orch[k] = orch[j]
        /\ epc[k] = "returned" /\ future[k].state = "queued"
        /\ elapsed[k] = timeout[k]
        /\ result[k].exit_code = 0 - 1
        /\ epc[j] = "returned" /\ future[j].state = "running"

\* C19: the effective timeout of a call lies in 1..max_exec_timeout_seconds:
\* an argument below 1 gives 1, one above the maximum gives the maximum, one
\* inside the range is kept.
C19_TimeoutClamped ==
    \A k \in Calls :
        epc[k] # "idle" =>
            /\ timeout[k] \in 1..MaxExecTimeout
            /\ timeout_seconds[k] < 1 => timeout[k] = 1
            /\ timeout_seconds[k] > MaxExecTimeout => timeout[k] = MaxExecTimeout
            /\ timeout_seconds[k] \in 1..MaxExecTimeout
                 => timeout[k] = timeout_seconds[k]

\* Calls with an argument below 1 and with one above the maximum were made.
C19_Witness ==
    \E k, j \in Calls :
        /\ epc[k] # "idle" /\ timeout_seconds[k] < 1
        /\ epc[j] # "idle" /\ timeout_seconds[j] > MaxExecTimeout

\* C20: no call of execute_in_container is left by an exception; when submit
\* fails, or the exec raises an error that is not a timeout, the call returns
\* exit_code -1, an empty stdout and the message of the error in stderr.
C20_FailureReturnedInBand ==
    /\ [](\A k \in Calls : ~result[k].raised)
    /\ [][\A k \in Calls :
            /\ (/\ epc[k] = "wait"
                /\ epc'[k] = "returned"
                /\ future[k].state = "raised"
                /\ future[k].error.type # "TimeoutError")
               => result'[k] =
                    [raised |-> FALSE, stdout |-> Text(""),
                     stderr |-> Text(future[k].error.msg),
                     exit_code |-> 0 - 1]
            /\ (epc[k] = "submit" /\ epc'[k] = "returned")
               => /\ result'[k].exit_code = 0 - 1
                  /\ result'[k].stdout = Text("")
                  /\ result'[k].stderr.msg # ""]_vars

\* A call has returned the error its exec raised.
C20_Witness ==
    \E k \in Calls :
        /\ epc[k] = "returned"
        /\ future[k].state = "raised"
        /\ future[k].error.type = "APIError"
        /\ result[k].stderr = Text("No such container")

\* C21: in one process never more execs are outstanding than the pool has
\* workers.
C21_OutstandingWithinPool ==
    Cardinality(Outstanding) <= MaxWorkers

\* C22: session:<id> exists exactly when container:<id> exists, and then the
\* container_id of the one is the value of the other.  (The one exception of
\* the claim, a set_container_for_session between its two writes, needs no
\* clause: nothing calls set_container_for_session.)
C22_StorePairing ==
    \A s \in Sessions :
        /\ skey[s].present <=> ckey[s] # NoId
        /\ skey[s].present => skey[s].container_id = ckey[s]

\* C23: as long as session:<id> stays in the store its user_id does not
\* change.
C23_UserIdImmutable ==
    [][\A s \in Sessions :
        (skey[s].present /\ skey'[s].present)
            => skey'[s].user_id = skey[s].user_id]_vars

\* C24: a refresh_session that finds session:<s> and during which no other
\* caller writes the keys returns with command_count one higher, user_id,
\* container_id and created_at as found, container:<s> as found, and both
\* keys running out no sooner than a full window after the call began; one
\* that does not find session:<s> changes no key.  Every execute and
\* workspace request calls it once, after get_or_create_container.
C24_RefreshSession ==
    /\ [][\A p \in Procs :
            /\ (RefreshHincrby(p) /\ rfalone[p])
               => /\ skey'[msid[p]] =
                       [rfpre[p].session EXCEPT !.command_count = @ + 1]
                  /\ ckey'[msid[p]] = rfpre[p].container
                  /\ sttl'[msid[p]] >= SessionTtl - rfage[p]
                  /\ ckey'[msid[p]] # NoId
                       => cttl'[msid[p]] >= SessionTtl - rfage[p]
            /\ \A s \in Sessions :
                 (RefreshExists(p, s) /\ ~skey[s].present)
                 => (mpc'[p] = "idle" /\ UNCHANGED <<skey, ckey, sttl, cttl>>)]_vars
    /\ \A f \in Facades : \A c \in FacadeCommands(f) \ {"create_session", "delete_session"} :
          Cardinality({i \in DOMAIN Pipeline(f, c) : Pipeline(f, c)[i] = "refresh"}) = 1

\* C25: when a refresh_session returns and no other operation on the keys is
\* under way, session:<s> is the record create_session wrote with
\* command_count the number of refreshes returned since, and both keys are
\* there and run out no sooner than a full window after that call began.
C25_ConcurrentRefreshes ==
    [][\A p \in Procs :
        (/\ RefreshHincrby(p)
         /\ \A q \in Procs \ {p} : mpc[q] = "idle")
        => /\ skey'[msid[p]].present
           /\ skey'[msid[p]].user_id # NoStr
           /\ skey'[msid[p]].container_id # NoId
           /\ skey'[msid[p]].command_count = rfdone'[msid[p]]
           /\ sttl'[msid[p]] >= SessionTtl - rfage[p]
           /\ ckey'[msid[p]] # NoId
           /\ cttl'[msid[p]] >= SessionTtl - rfage[p]]_vars

\* The part of a token after its last "/".
Basename(token) ==
    LET slashes == {i \in DOMAIN token : token[i] = "/"}
        last == CHOOSE i \in slashes : \A j \in slashes : j <= i
    IN IF slashes = {} THEN token ELSE SubSeq(token, last + 1, Len(token))

\* The trimmed command splits into shell words, and there is a first one.
HasFirstToken(cmd) ==
    /\ Strip(cmd) # <<>>
    /\ ShlexSplit(Strip(cmd)) \notin {ShlexValueError, <<>>}

\* C26: the whitelist admits a command exactly when the first word of its
\* POSIX shell-word split, without its directory prefix and in lower case, is
\* in the configured set.
C26_AdmitsIffBasenameAllowed ==
    allowed # "none" =>
        ((allowed = "ok") <=>
            (/\ HasFirstToken(command)
             /\ Lower(Basename(ShlexSplit(Strip(command))[1])) \in AllowedCommands))

\* An upper-case name behind a directory prefix has been admitted.
C26_Witness ==
    /\ allowed = "ok"
    /\ \E i \in DOMAIN command : command[i] = "/"
    /\ \E i \in DOMAIN command : command[i] = "L"

\* C27: an empty, blank or unparseable command is rejected as
\* command-forbidden, never by another error.
C27_MalformedRejected ==
    (allowed # "none" /\ ~HasFirstToken(command)) => allowed = "command-forbidden"

RECURSIVE PopsPastRoot(_, _)
\* Reading the segments in order, some ".." comes with nothing above it.
PopsPastRoot(segments, depth) ==
    IF segments = <<>> THEN FALSE
    ELSE IF Head(segments) \in {<<".">>, <<>>}
         THEN PopsPastRoot(Tail(segments), depth)
    ELSE IF Head(segments) = <<".", ".">>
         THEN depth = 0 \/ PopsPastRoot(Tail(segments), depth - 1)
    ELSE PopsPastRoot(Tail(segments), depth + 1)

IsPrefix(s, u) == Len(s) <= Len(u) /\ SubSeq(u, 1, Len(s)) = s

\* C28: resolve_workspace_path fails with bad-path exactly when a ".." would
\* pop past the root; otherwise its result has no leading slash and no empty,
\* "." or ".." segment, and container_path of it is "/workspace" or strictly
\* under "/workspace/".
C28_ResolvedUnderWorkspace ==
    resolved # Unresolved =>
        LET segments == Split(LeftStrip(Strip(raw_path), "/"), "/")
            under == ContainerPath(resolved)
        IN /\ (resolved = BadPath) <=> PopsPastRoot(segments, 0)
           /\ resolved # BadPath =>
                /\ \/ resolved = <<>>
                   \/ /\ Head(resolved) # "/"
                      /\ \A i \in DOMAIN Split(resolved, "/") :
                            Split(resolved, "/")[i]
                                \notin {<<>>, <<".">>, <<".", ".">>}
                /\ \/ under = Workspace
                   \/ /\ IsPrefix(Workspace \o <<"/">>, under)
                      /\ Len(under) > Len(Workspace) + 1

\* A path with a ".." that pops a real segment has been resolved.
C28_Witness ==
    /\ resolved \notin {Unresolved, BadPath}
    /\ resolved # <<>>
    /\ \E i \in DOMAIN Split(raw_path, "/") : Split(raw_path, "/")[i] = <<".", ".">>

\* The bytes that a result of workspace_read stands for.
ReadBytes(r) == IF r.encoding = "base64" THEN B64Decode(r.content) ELSE r.content

\* C29: after workspace_write of b has returned, the file holds exactly b,
\* whatever it held before, and workspace_read yields b, as text or as base64.
C29_WriteReadRoundTrip ==
    /\ wpc \in {"written", "read"} => wfile.exists /\ wfile.data = content
    /\ wpc = "read" => rdata.status = "ok" /\ ReadBytes(rdata) = content

\* C30: a get_or_create_container call that found the stored container in the
\* runtime but not running removes it, so that the old container no longer
\* exists when the call deletes the record, and then creates its new
\* container instead of raising.
C30_ExitedContainerReplaced ==
    [][\A p \in Procs :
          /\ (pc[p] = "goc_remove" /\ pc'[p] = "goc_del_s") => ~Live(cid[p])'
          /\ (/\ pc[p] = "goc_create"
              /\ pc'[p] # "goc_create"
              /\ cid[p] # NoId
              /\ Live(cid[p]))
                 => pc'[p] = "goc_start"]_vars

\* C31: a failure while the sweep handles one container does not end the
\* sweep, which goes on to the containers still to handle, and the count the
\* sweep returns is the number of containers it removed.
C31_SweepSurvivesFailures ==
    [][/\ (rpc # "sleep" /\ rpc' = "sleep") => (rlist = {} /\ removed = rgone)
       /\ ReaperStoreError => (rpc' = "loop" /\ rlist' = rlist)]_vars

\* The characters the claims call alphanumeric or hyphen.
NameChars == {"a", "c", "e", "x", "-"}

\* C32: the name built for (user_id, session_id) starts with "exec-", has
\* only alphanumerics and hyphens, and is at most 64 characters long.
C32_NameWellFormed ==
    cfg_name # NoStr =>
        /\ IsPrefix(<<"e", "x", "e", "c", "-">>, cfg_name)
        /\ \A i \in DOMAIN cfg_name : cfg_name[i] \in NameChars
        /\ Len(cfg_name) <= 64

\* C35: no other pair (user_id, session_id) gets the name built for this one.
C35_NamesInjective ==
    cfg_name # NoStr =>
        \A user_id \in NameIds, session_id \in NameIds :
            <<user_id, session_id>> # <<cfg_user, cfg_session>>
                => ContainerName(user_id, session_id) # cfg_name

\* C33: when the cleanup worker deletes the store keys of a session after
\* removing a container, neither key names a running container (which would
\* be another one than the container it has just removed).
C33_SweepDeletesOwnRecordOnly ==
    [][/\ ReaperDeleteSessionKey =>
             ~(skey[rsid].present /\ Running(skey[rsid].container_id))
       /\ ReaperDeleteContainerKey => ~Running(ckey[rsid])]_vars

\* C34: once no request is under way, if both store keys of a session are
\* gone while a container of that session and principal is still in the
\* runtime, the principal's next get_or_create_container call creates, starts
\* and stores a container instead of failing on the name of the leftover one.
C34_RecreatedAfterExpiry ==
    Quiescent =>
        \A s \in Sessions, u \in Users :
            (/\ ~skey[s].present
             /\ ckey[s] = NoId
             /\ \E c \in Ids : /\ Live(c)
                               /\ ctrs[c].session = s
                               /\ ctrs[c].user = u)
                => GocIsolated(s, u) = "creates"

====
